---- MODULE Spec2Model ----
(***************************************************************************)
(* A model of the concurrency core of mp3_audio_analyzer:                  *)
(*   - RingBuffer<T> (include/ring_buffer.h): the lock-free SPSC queue,    *)
(*     with Push and Pop broken into their shared-memory accesses;         *)
(*   - AnalysisData (src/analysis_data.cpp): the mutex-guarded snapshot.   *)
(* The cursors are size_t; they are modelled with CursorBits bits so that  *)
(* their wrap-around is reachable.  An acquire load of the opposing cursor *)
(* may return any value of its modification order that is not older than   *)
(* the last one the loading thread has observed.                           *)
(***************************************************************************)
EXTENDS Integers, Sequences, FiniteSets, TLC

\* ------------------------------------------------------------ bounds
\* the width of the cursors (size_t), reduced so that they overflow
CursorBits == 3
MaxCapacity == 4
MaxCount == 3
MaxTotal == 10
MaxSets == 3
MaxGets == 3
SpectrumLen == 2
MaxInits == 2
MaxReinitTotal == 2
MaxInitArg == 33

VARIABLES
  \* RingBuffer members
  capacity_, buffer_, head_, tail_,
  \* modification orders of the cursors, from the value last observed by the
  \* opposing thread up to the current value
  head_hist, tail_hist,
  \* the producer context (the caller of Push) and the locals of Push
  pc_p, p_null, p_count, p_data, p_head, p_tail, p_i, p_ret,
  \* the consumer context (the caller of Pop) and the locals of Pop
  pc_c, c_null, c_count, c_dest, c_head, c_tail, c_i, c_ret,
  \* the last Initialize call: its argument and result; the successful calls
  init_arg, init_ret, inits_ok,
  \* history: values accepted by successful Pushes, values returned by
  \* successful Pops; ub is set by an access outside the backing store
  pushed, popped, ub,
  \* a call of Size(): its caller, its position (before the load of head_ or
  \* before the load of tail_), the head_ it loaded, the value last returned
  sz_caller, sz_pc, sz_head, sz_ret,
  \* AnalysisData members
  mutex_, rms_, correlation_, bandwidth_, spectrum_left_, spectrum_right_,
  \* the analysis worker calling Set, and the reader calling Get
  pc_w, w_arg, pc_r, g_rms, g_correlation, g_bandwidth, g_spectrum_left,
  g_spectrum_right,
  \* history: Sets called, last Set completed, what the last completed Set
  \* was when the running Get locked, the last Get's result, Gets called
  sets_called, sets_done, g_locked_at, g_prev, gets_called,
  \* the width of size_t in this run, in bits
  size_bits,
  \* AnalysisThread: running_, thread_, the position of Run, the result of
  \* Initialize, the position of a running Stop, the Stops that returned
  wk_running, wk_thread, wk_pc, wk_init_ret, wk_stop_pc, wk_stops,
  \* AudioPipeline: running_, thread_, the position of Run, frames, why the
  \* loop was left, the position of a running Stop, the Stops that returned
  ap_running, ap_thread, ap_pc, ap_frames, ap_exit, ap_stop_pc, ap_stops,
  \* the decoder and the device: Reads made, whether the decoder is a stub of
  \* so many chunks (0: any decoder), the chunks any other decoder yields at
  \* most, sample_rate_ of AnalysisThread (0 until Initialize stores it), the
  \* chunks (by the number of the Read) pushed and written
  dec_reads, dec_stub, dec_len, sample_rate_, chunks_pushed, chunks_written,
  \* the main thread
  main_pc

size_vars == <<sz_caller, sz_pc, sz_head, sz_ret>>

queue_vars == <<capacity_, buffer_, head_, tail_, head_hist, tail_hist,
                pc_p, p_null, p_count, p_data, p_head, p_tail, p_i, p_ret,
                pc_c, c_null, c_count, c_dest, c_head, c_tail, c_i, c_ret,
                init_arg, init_ret, inits_ok, pushed, popped, ub, size_vars>>

data_vars == <<mutex_, rms_, correlation_, bandwidth_, spectrum_left_,
               spectrum_right_, pc_w, w_arg, pc_r, g_rms, g_correlation,
               g_bandwidth, g_spectrum_left, g_spectrum_right,
               sets_called, sets_done, g_locked_at, g_prev, gets_called>>

life_vars == <<size_bits,
               wk_running, wk_thread, wk_pc, wk_init_ret, wk_stop_pc, wk_stops,
               ap_running, ap_thread, ap_pc, ap_frames, ap_exit, ap_stop_pc,
               ap_stops, dec_reads, dec_stub, dec_len, sample_rate_, chunks_pushed,
               chunks_written, main_pc>>

vars == <<queue_vars, data_vars, life_vars>>

\* ------------------------------------------------------------ size_t
RECURSIVE Pow2(_)
Pow2(n) == IF n = 0 THEN 1 ELSE 2 * Pow2(n - 1)

Modulus == Pow2(size_bits)

\* unsigned arithmetic of the cursor width
Wrap(x) == ((x % Modulus) + Modulus) % Modulus

Add(a, b) == Wrap(a + b)

\* variant: the difference of the cursors without the wrap-around of size_t
Sub_Saturating(a, b) == IF a < b THEN 0 ELSE a - b

Sub(a, b) == Wrap(a - b)

RECURSIVE BitAnd(_, _)
BitAnd(a, b) ==
  IF a = 0 \/ b = 0 THEN 0
  ELSE (a % 2) * (b % 2) + 2 * BitAnd(a \div 2, b \div 2)

Min(a, b) == IF a < b THEN a ELSE b

\* T(): the value of a value-initialised element
DefaultT == 0

Zeros(n) == [i \in 1..n |-> DefaultT]

\* ------------------------------------------------------------ RingBuffer
\* Initialize()'s test:  capacity == 0 || (capacity & (capacity - 1)) != 0
\* (capacity - 1 is taken only of a capacity that is not 0)
\* variant: without the test for 0
CapacityInvalid_NoZeroTest(capacity) ==
  capacity # 0 /\ BitAnd(capacity, capacity - 1) # 0

CapacityInvalid(capacity) ==
  capacity = 0 \/ BitAnd(capacity, capacity - 1) # 0

\* buffer_.resize(n): keeps the first elements, value-initialises new ones
Resize(buf, n) ==
  [i \in 0..(n - 1) |-> IF i \in DOMAIN buf THEN buf[i] ELSE DefaultT]

\* Push():  capacity_ - (head - tail)
\* variant: one element too many
FreeSpace_OffByOne(capacity, head, tail) ==
  Add(Sub(capacity, Sub(head, tail)), 1)

FreeSpace(capacity, head, tail) == Sub(capacity, Sub(head, tail))

\* Pop():  head - tail
\* variant: one element too many
Used_OffByOne(head, tail) == Add(Sub(head, tail), 1)

Used(head, tail) == Sub(head, tail)

\* The slot the i-th element (from 0) of a batch of count elements starting
\* at cursor value start is copied to or from: the first copy_n covers
\* first_copy_count elements from index, the second the rest from 0.
\* variant: the second copy_n starts at slot 1
SlotOf_BadWrap(capacity, start, count, i) ==
  LET index == BitAnd(start, Sub(capacity, 1))
      first_copy_count == Min(count, Sub(capacity, index))
  IN  IF i < first_copy_count THEN index + i ELSE i - first_copy_count + 1

SlotOf(capacity, start, count, i) ==
  LET index == BitAnd(start, Sub(capacity, 1))
      first_copy_count == Min(count, Sub(capacity, index))
  IN  IF i < first_copy_count THEN index + i ELSE i - first_copy_count

\* Size(), Empty(), Full() on the current cursors
Size == Sub(head_, tail_)

Empty == Size = 0

Full == Size = capacity_

\* the values an acquire load of a cursor may return: positions in the
\* cursor's modification order since the value this thread last observed
Visible(hist) == 1..Len(hist)

\* -- Initialize(capacity)
\* variant: resets head_ and leaves tail_
Initialize_ResetHeadOnly(capacity) ==
  /\ ~ub
  /\ pc_p = "idle" /\ pc_c = "idle"
  /\ init_arg' = capacity
  /\ IF CapacityInvalid(capacity)
       THEN /\ init_ret' = "false"
            /\ UNCHANGED <<capacity_, buffer_, inits_ok, head_, head_hist>>
       ELSE /\ init_ret' = "true"
            /\ inits_ok' = inits_ok + 1
            /\ capacity_' = capacity
            /\ buffer_' = Resize(buffer_, capacity)
            /\ head_' = 0
            /\ head_hist' = Append(head_hist, 0)
  /\ UNCHANGED <<tail_, tail_hist,
                 pc_p, p_null, p_count, p_data, p_head, p_tail, p_i, p_ret,
                 pc_c, c_null, c_count, c_dest, c_head, c_tail, c_i, c_ret,
                 pushed, popped, ub, size_vars>>
  /\ UNCHANGED <<data_vars, life_vars>>

Initialize(capacity) ==
  /\ ~ub
  /\ pc_p = "idle" /\ pc_c = "idle"
  /\ init_arg' = capacity
  /\ IF CapacityInvalid(capacity)
       THEN /\ init_ret' = "false"
            /\ UNCHANGED <<capacity_, buffer_, inits_ok>>
       ELSE /\ init_ret' = "true"
            /\ inits_ok' = inits_ok + 1
            /\ capacity_' = capacity
            /\ buffer_' = Resize(buffer_, capacity)
  /\ UNCHANGED <<head_, tail_, head_hist, tail_hist,
                 pc_p, p_null, p_count, p_data, p_head, p_tail, p_i, p_ret,
                 pc_c, c_null, c_count, c_dest, c_head, c_tail, c_i, c_ret,
                 pushed, popped, ub, size_vars>>
  /\ UNCHANGED <<data_vars, life_vars>>

\* Initialize() called right after the constructor (a failed call may be
\* repeated), as ring_buffer.h requires
InitializeFresh ==
  /\ capacity_ = 0
  /\ \E capacity \in 0..MaxCapacity : Initialize(capacity)

\* Initialize() called on a queue whatever its state, between calls
InitializeAgain ==
  /\ inits_ok < MaxInits
  /\ \E capacity \in 0..MaxCapacity : Initialize(capacity)

\* the capacity of the queue of tests/ring_buffer_test.cpp
kBufferSize == 1024

\* the capacities Initialize() is tried with: the small ones, 100 and 1024
InitializeArgs == (0..MaxInitArg) \cup {100, kBufferSize}

\* Initialize() called with any of these capacities, on a queue that was
\* initialized before or not
InitializeAny ==
  /\ inits_ok < MaxInits
  /\ \E capacity \in InitializeArgs : Initialize(capacity)

\* -- Push(data, count): the argument test, the two loads, the space test
\* variant: the first element is copied in before the space test
PushCall_CopyBeforeTest(null, count) ==
  /\ ~ub
  /\ pc_p = "idle"
  /\ Len(pushed) + count <= MaxTotal
  /\ p_null' = null
  /\ p_count' = count
  /\ p_data' = IF null THEN << >>
               ELSE [i \in 1..count |-> Len(pushed) + i]
  /\ IF null \/ count = 0
       THEN /\ p_ret' = "false"
            /\ UNCHANGED <<pc_p, p_head, p_tail, p_i, tail_hist, buffer_>>
       ELSE \E j \in Visible(tail_hist) :
              LET head == head_
                  tail == tail_hist[j]
                  free_space == FreeSpace(capacity_, head, tail)
                  index == BitAnd(head, Sub(capacity_, 1))
              IN  /\ tail_hist' = SubSeq(tail_hist, j, Len(tail_hist))
                  /\ IF count > free_space
                       THEN /\ p_ret' = "false"
                            /\ buffer_' = IF index \in DOMAIN buffer_
                                 THEN [buffer_ EXCEPT ![index] = p_data'[1]]
                                 ELSE buffer_
                            /\ UNCHANGED <<pc_p, p_head, p_tail, p_i>>
                       ELSE /\ p_ret' = "none"
                            /\ pc_p' = "copy"
                            /\ p_head' = head
                            /\ p_tail' = tail
                            /\ p_i' = 0
                            /\ UNCHANGED buffer_
  /\ UNCHANGED <<capacity_, head_, tail_, head_hist,
                 pc_c, c_null, c_count, c_dest, c_head, c_tail, c_i, c_ret,
                 init_arg, init_ret, inits_ok, pushed, popped, ub, size_vars>>
  /\ UNCHANGED <<data_vars, life_vars>>

PushCall(null, count) ==
  /\ ~ub
  /\ pc_p = "idle"
  /\ Len(pushed) + count <= MaxTotal
  /\ p_null' = null
  /\ p_count' = count
  /\ p_data' = IF null THEN << >>
               ELSE [i \in 1..count |-> Len(pushed) + i]
  /\ IF null \/ count = 0
       THEN /\ p_ret' = "false"
            /\ UNCHANGED <<pc_p, p_head, p_tail, p_i, tail_hist>>
       ELSE \E j \in Visible(tail_hist) :
              LET head == head_
                  tail == tail_hist[j]
                  free_space == FreeSpace(capacity_, head, tail)
              IN  /\ tail_hist' = SubSeq(tail_hist, j, Len(tail_hist))
                  /\ IF count > free_space
                       THEN /\ p_ret' = "false"
                            /\ UNCHANGED <<pc_p, p_head, p_tail, p_i>>
                       ELSE /\ p_ret' = "none"
                            /\ pc_p' = "copy"
                            /\ p_head' = head
                            /\ p_tail' = tail
                            /\ p_i' = 0
  /\ UNCHANGED <<capacity_, buffer_, head_, tail_, head_hist,
                 pc_c, c_null, c_count, c_dest, c_head, c_tail, c_i, c_ret,
                 init_arg, init_ret, inits_ok, pushed, popped, ub, size_vars>>
  /\ UNCHANGED <<data_vars, life_vars>>

Push == \E null \in BOOLEAN, count \in 0..MaxCount : PushCall(null, count)

\* -- Push: one element of the two copy_n calls
\* variant: copies only while no Pop is running
PushCopy_WaitsForPop ==
  /\ ~ub
  /\ pc_p = "copy"
  /\ pc_c = "idle"
  /\ p_i < p_count
  /\ LET slot == SlotOf(capacity_, p_head, p_count, p_i)
     IN  IF slot \in DOMAIN buffer_
           THEN /\ buffer_' = [buffer_ EXCEPT ![slot] = p_data[p_i + 1]]
                /\ p_i' = p_i + 1
                /\ UNCHANGED <<ub, size_vars>>
           ELSE /\ ub' = TRUE /\ UNCHANGED size_vars
                /\ UNCHANGED <<buffer_, p_i>>
  /\ UNCHANGED <<capacity_, head_, tail_, head_hist, tail_hist,
                 pc_p, p_null, p_count, p_data, p_head, p_tail, p_ret,
                 pc_c, c_null, c_count, c_dest, c_head, c_tail, c_i, c_ret,
                 init_arg, init_ret, inits_ok, pushed, popped>>
  /\ UNCHANGED <<data_vars, life_vars>>

PushCopy ==
  /\ ~ub
  /\ pc_p = "copy"
  /\ p_i < p_count
  /\ LET slot == SlotOf(capacity_, p_head, p_count, p_i)
     IN  IF slot \in DOMAIN buffer_
           THEN /\ buffer_' = [buffer_ EXCEPT ![slot] = p_data[p_i + 1]]
                /\ p_i' = p_i + 1
                /\ UNCHANGED <<ub, size_vars>>
           ELSE /\ ub' = TRUE /\ UNCHANGED size_vars
                /\ UNCHANGED <<buffer_, p_i>>
  /\ UNCHANGED <<capacity_, head_, tail_, head_hist, tail_hist,
                 pc_p, p_null, p_count, p_data, p_head, p_tail, p_ret,
                 pc_c, c_null, c_count, c_dest, c_head, c_tail, c_i, c_ret,
                 init_arg, init_ret, inits_ok, pushed, popped>>
  /\ UNCHANGED <<data_vars, life_vars>>

\* -- Push: head_.store(head + count, release), return true
\* variant: publishes before the copy is complete
PushStore_Early ==
  /\ ~ub
  /\ pc_p = "copy"
  /\ head_' = Add(p_head, p_count)
  /\ head_hist' = Append(head_hist, Add(p_head, p_count))
  /\ pushed' = pushed \o p_data
  /\ p_ret' = "true"
  /\ pc_p' = "idle"
  /\ p_head' = 0 /\ p_tail' = 0 /\ p_i' = 0
  /\ UNCHANGED <<capacity_, buffer_, tail_, tail_hist, p_null, p_count, p_data,
                 pc_c, c_null, c_count, c_dest, c_head, c_tail, c_i, c_ret,
                 init_arg, init_ret, inits_ok, popped, ub, size_vars>>
  /\ UNCHANGED <<data_vars, life_vars>>

PushStore ==
  /\ ~ub
  /\ pc_p = "copy"
  /\ p_i = p_count
  /\ head_' = Add(p_head, p_count)
  /\ head_hist' = Append(head_hist, Add(p_head, p_count))
  /\ pushed' = pushed \o p_data
  /\ p_ret' = "true"
  /\ pc_p' = "idle"
  /\ p_head' = 0 /\ p_tail' = 0 /\ p_i' = 0
  /\ UNCHANGED <<capacity_, buffer_, tail_, tail_hist, p_null, p_count, p_data,
                 pc_c, c_null, c_count, c_dest, c_head, c_tail, c_i, c_ret,
                 init_arg, init_ret, inits_ok, popped, ub, size_vars>>
  /\ UNCHANGED <<data_vars, life_vars>>

\* -- Pop(dest, count): the argument test, the two loads, the data test
PopCall(null, count) ==
  /\ ~ub
  /\ pc_c = "idle"
  /\ c_null' = null
  /\ c_count' = count
  /\ c_dest' = IF null THEN << >> ELSE Zeros(count)
  /\ IF null \/ count = 0
       THEN /\ c_ret' = "false"
            /\ UNCHANGED <<pc_c, c_head, c_tail, c_i, head_hist>>
       ELSE \E j \in Visible(head_hist) :
              LET tail == tail_
                  head == head_hist[j]
                  used == Used(head, tail)
              IN  /\ head_hist' = SubSeq(head_hist, j, Len(head_hist))
                  /\ IF count > used
                       THEN /\ c_ret' = "false"
                            /\ UNCHANGED <<pc_c, c_head, c_tail, c_i>>
                       ELSE /\ c_ret' = "none"
                            /\ pc_c' = "copy"
                            /\ c_head' = head
                            /\ c_tail' = tail
                            /\ c_i' = 0
  /\ UNCHANGED <<capacity_, buffer_, head_, tail_, tail_hist,
                 pc_p, p_null, p_count, p_data, p_head, p_tail, p_i, p_ret,
                 init_arg, init_ret, inits_ok, pushed, popped, ub, size_vars>>
  /\ UNCHANGED <<data_vars, life_vars>>

Pop == \E null \in BOOLEAN, count \in 0..MaxCount : PopCall(null, count)

\* -- Pop: one element of the two copy_n calls
PopCopy ==
  /\ ~ub
  /\ pc_c = "copy"
  /\ c_i < c_count
  /\ LET slot == SlotOf(capacity_, c_tail, c_count, c_i)
     IN  IF slot \in DOMAIN buffer_
           THEN /\ c_dest' = [c_dest EXCEPT ![c_i + 1] = buffer_[slot]]
                /\ c_i' = c_i + 1
                /\ UNCHANGED <<ub, size_vars>>
           ELSE /\ ub' = TRUE /\ UNCHANGED size_vars
                /\ UNCHANGED <<c_dest, c_i>>
  /\ UNCHANGED <<capacity_, buffer_, head_, tail_, head_hist, tail_hist,
                 pc_p, p_null, p_count, p_data, p_head, p_tail, p_i, p_ret,
                 pc_c, c_null, c_count, c_head, c_tail, c_ret,
                 init_arg, init_ret, inits_ok, pushed, popped>>
  /\ UNCHANGED <<data_vars, life_vars>>

\* -- Pop: tail_.store(tail + count, release), return true
PopStore ==
  /\ ~ub
  /\ pc_c = "copy"
  /\ c_i = c_count
  /\ tail_' = Add(c_tail, c_count)
  /\ tail_hist' = Append(tail_hist, Add(c_tail, c_count))
  /\ popped' = popped \o c_dest
  /\ c_ret' = "true"
  /\ pc_c' = "idle"
  /\ c_head' = 0 /\ c_tail' = 0 /\ c_i' = 0
  /\ UNCHANGED <<capacity_, buffer_, head_, head_hist, c_null, c_count, c_dest,
                 pc_p, p_null, p_count, p_data, p_head, p_tail, p_i, p_ret,
                 init_arg, init_ret, inits_ok, pushed, ub, size_vars>>
  /\ UNCHANGED <<data_vars, life_vars>>

\* ------------------------------------------------------------ AnalysisData
\* The k-th Set call (k = 1, 2, ...) passes k for each scalar and spectra
\* filled with k; the members start at 0 (the default member initializers).
Filled(k) == [i \in 1..SpectrumLen |-> k]

\* std::scoped_lock lock(mutex_) can be acquired
\* variant: no mutual exclusion
MutexFree_NoLock == TRUE

MutexFree == mutex_ = "free"

\* -- the worker calls Set(rms, correlation, bandwidth, left, right)
SetCall ==
  /\ pc_w = "idle"
  /\ sets_called < MaxSets
  /\ sets_called' = sets_called + 1
  /\ w_arg' = sets_called + 1
  /\ pc_w' = "lock"
  /\ UNCHANGED <<mutex_, rms_, correlation_, bandwidth_, spectrum_left_,
                 spectrum_right_, pc_r, g_rms, g_correlation, g_bandwidth,
                 g_spectrum_left, g_spectrum_right, sets_done, g_locked_at,
                 g_prev, gets_called>>
  /\ UNCHANGED <<queue_vars, life_vars>>

SetLock ==
  /\ pc_w = "lock"
  /\ MutexFree
  /\ mutex_' = "set"
  /\ pc_w' = "rms"
  /\ UNCHANGED <<rms_, correlation_, bandwidth_, spectrum_left_,
                 spectrum_right_, w_arg, pc_r, g_rms, g_correlation,
                 g_bandwidth, g_spectrum_left, g_spectrum_right, sets_called,
                 sets_done, g_locked_at, g_prev, gets_called>>
  /\ UNCHANGED <<queue_vars, life_vars>>

\* what a step inside Set or Get leaves alone besides the members and outputs
DataFrame ==
  /\ UNCHANGED <<mutex_, w_arg, sets_called, sets_done, g_locked_at, g_prev,
                 gets_called>>
  /\ UNCHANGED <<queue_vars, life_vars>>

SetRms ==
  /\ pc_w = "rms"
  /\ rms_' = w_arg
  /\ pc_w' = "correlation"
  /\ UNCHANGED <<correlation_, bandwidth_, spectrum_left_, spectrum_right_,
                 pc_r, g_rms, g_correlation, g_bandwidth, g_spectrum_left,
                 g_spectrum_right>>
  /\ DataFrame

SetCorrelation ==
  /\ pc_w = "correlation"
  /\ correlation_' = w_arg
  /\ pc_w' = "bandwidth"
  /\ UNCHANGED <<rms_, bandwidth_, spectrum_left_, spectrum_right_,
                 pc_r, g_rms, g_correlation, g_bandwidth, g_spectrum_left,
                 g_spectrum_right>>
  /\ DataFrame

SetBandwidth ==
  /\ pc_w = "bandwidth"
  /\ bandwidth_' = w_arg
  /\ pc_w' = "spectrum_left"
  /\ UNCHANGED <<rms_, correlation_, spectrum_left_, spectrum_right_,
                 pc_r, g_rms, g_correlation, g_bandwidth, g_spectrum_left,
                 g_spectrum_right>>
  /\ DataFrame

SetSpectrumLeft ==
  /\ pc_w = "spectrum_left"
  /\ spectrum_left_' = Filled(w_arg)
  /\ pc_w' = "spectrum_right"
  /\ UNCHANGED <<rms_, correlation_, bandwidth_, spectrum_right_,
                 pc_r, g_rms, g_correlation, g_bandwidth, g_spectrum_left,
                 g_spectrum_right>>
  /\ DataFrame

SetSpectrumRight ==
  /\ pc_w = "spectrum_right"
  /\ spectrum_right_' = Filled(w_arg)
  /\ pc_w' = "unlock"
  /\ UNCHANGED <<rms_, correlation_, bandwidth_, spectrum_left_,
                 pc_r, g_rms, g_correlation, g_bandwidth, g_spectrum_left,
                 g_spectrum_right>>
  /\ DataFrame

\* the scoped_lock is released as Set returns
SetUnlock ==
  /\ pc_w = "unlock"
  /\ mutex_' = "free"
  /\ sets_done' = w_arg
  /\ pc_w' = "idle"
  /\ UNCHANGED <<rms_, correlation_, bandwidth_, spectrum_left_,
                 spectrum_right_, w_arg, pc_r, g_rms, g_correlation,
                 g_bandwidth, g_spectrum_left, g_spectrum_right, sets_called,
                 g_locked_at, g_prev, gets_called>>
  /\ UNCHANGED <<queue_vars, life_vars>>

\* -- the reader calls Get(rms, correlation, bandwidth, left, right); the
\* outputs are references to the caller's variables, which keep the result
\* of the previous Get
GetCall ==
  /\ pc_r = "idle"
  /\ gets_called < MaxGets
  /\ gets_called' = gets_called + 1
  /\ g_prev' = g_rms
  /\ pc_r' = "lock"
  /\ UNCHANGED <<mutex_, rms_, correlation_, bandwidth_, spectrum_left_,
                 spectrum_right_, pc_w, w_arg, g_rms, g_correlation,
                 g_bandwidth, g_spectrum_left, g_spectrum_right, sets_called,
                 sets_done, g_locked_at>>
  /\ UNCHANGED <<queue_vars, life_vars>>

GetLock ==
  /\ pc_r = "lock"
  /\ MutexFree
  /\ mutex_' = "get"
  /\ g_locked_at' = sets_done
  /\ pc_r' = "rms"
  /\ UNCHANGED <<rms_, correlation_, bandwidth_, spectrum_left_,
                 spectrum_right_, pc_w, w_arg, g_rms, g_correlation,
                 g_bandwidth, g_spectrum_left, g_spectrum_right, sets_called,
                 sets_done, g_prev, gets_called>>
  /\ UNCHANGED <<queue_vars, life_vars>>

\* variant: the assignment the wrong way round
GetRms_Reversed ==
  /\ pc_r = "rms"
  /\ rms_' = g_rms
  /\ pc_r' = "correlation"
  /\ UNCHANGED <<correlation_, bandwidth_, spectrum_left_, spectrum_right_,
                 pc_w, g_rms, g_correlation, g_bandwidth, g_spectrum_left,
                 g_spectrum_right>>
  /\ DataFrame

GetRms ==
  /\ pc_r = "rms"
  /\ g_rms' = rms_
  /\ pc_r' = "correlation"
  /\ UNCHANGED <<rms_, correlation_, bandwidth_, spectrum_left_,
                 spectrum_right_, pc_w, g_correlation, g_bandwidth,
                 g_spectrum_left, g_spectrum_right>>
  /\ DataFrame

GetCorrelation ==
  /\ pc_r = "correlation"
  /\ g_correlation' = correlation_
  /\ pc_r' = "bandwidth"
  /\ UNCHANGED <<rms_, correlation_, bandwidth_, spectrum_left_,
                 spectrum_right_, pc_w, g_rms, g_bandwidth,
                 g_spectrum_left, g_spectrum_right>>
  /\ DataFrame

GetBandwidth ==
  /\ pc_r = "bandwidth"
  /\ g_bandwidth' = bandwidth_
  /\ pc_r' = "spectrum_left"
  /\ UNCHANGED <<rms_, correlation_, bandwidth_, spectrum_left_,
                 spectrum_right_, pc_w, g_rms, g_correlation,
                 g_spectrum_left, g_spectrum_right>>
  /\ DataFrame

GetSpectrumLeft ==
  /\ pc_r = "spectrum_left"
  /\ g_spectrum_left' = spectrum_left_
  /\ pc_r' = "spectrum_right"
  /\ UNCHANGED <<rms_, correlation_, bandwidth_, spectrum_left_,
                 spectrum_right_, pc_w, g_rms, g_correlation, g_bandwidth,
                 g_spectrum_right>>
  /\ DataFrame

GetSpectrumRight ==
  /\ pc_r = "spectrum_right"
  /\ g_spectrum_right' = spectrum_right_
  /\ pc_r' = "unlock"
  /\ UNCHANGED <<rms_, correlation_, bandwidth_, spectrum_left_,
                 spectrum_right_, pc_w, g_rms, g_correlation, g_bandwidth,
                 g_spectrum_left>>
  /\ DataFrame

\* the scoped_lock is released as Get returns
GetUnlock ==
  /\ pc_r = "unlock"
  /\ mutex_' = "free"
  /\ pc_r' = "idle"
  /\ UNCHANGED <<rms_, correlation_, bandwidth_, spectrum_left_,
                 spectrum_right_, pc_w, w_arg, g_rms, g_correlation,
                 g_bandwidth, g_spectrum_left, g_spectrum_right, sets_called,
                 sets_done, g_locked_at, g_prev, gets_called>>
  /\ UNCHANGED <<queue_vars, life_vars>>

\* ------------------------------------------------------------ Init
QueueInit ==
  /\ capacity_ = 0
  /\ buffer_ = << >>
  /\ head_ = 0 /\ tail_ = 0
  /\ head_hist = <<0>> /\ tail_hist = <<0>>
  /\ pc_p = "idle" /\ p_null = FALSE /\ p_count = 0 /\ p_data = << >>
  /\ p_head = 0 /\ p_tail = 0 /\ p_i = 0 /\ p_ret = "none"
  /\ pc_c = "idle" /\ c_null = FALSE /\ c_count = 0 /\ c_dest = << >>
  /\ c_head = 0 /\ c_tail = 0 /\ c_i = 0 /\ c_ret = "none"
  /\ init_arg = 0 /\ init_ret = "none" /\ inits_ok = 0
  /\ pushed = << >> /\ popped = << >> /\ ub = FALSE
  /\ sz_caller = "none" /\ sz_pc = "idle" /\ sz_head = 0 /\ sz_ret = 0

DataInitAs(rms0, float0, spectrum0) ==
  /\ mutex_ = "free"
  /\ rms_ = rms0 /\ correlation_ = float0 /\ bandwidth_ = float0
  /\ spectrum_left_ = spectrum0
  /\ spectrum_right_ = spectrum0
  /\ pc_w = "idle" /\ w_arg = 0
  /\ pc_r = "idle"
  /\ g_rms = rms0 /\ g_correlation = float0 /\ g_bandwidth = float0
  /\ g_spectrum_left = spectrum0
  /\ g_spectrum_right = spectrum0
  /\ sets_called = 0 /\ sets_done = 0 /\ g_locked_at = 0 /\ g_prev = rms0
  /\ gets_called = 0

\* the snapshot of the runs in which a Set passes the number of the call
DataInit == DataInitAs(0, 0, Zeros(SpectrumLen))

\* no worker and no coordinator: the queue and the snapshot on their own
LifeIdle ==
  /\ size_bits = CursorBits
  /\ wk_running = FALSE /\ wk_thread = "none" /\ wk_pc = "none"
  /\ wk_init_ret = "none" /\ wk_stop_pc = "idle" /\ wk_stops = 0
  /\ ap_running = FALSE /\ ap_thread = "none" /\ ap_pc = "none"
  /\ ap_frames = 0 /\ ap_exit = "none" /\ ap_stop_pc = "idle" /\ ap_stops = 0
  /\ dec_reads = 0 /\ dec_stub = 0 /\ dec_len = 0
  /\ sample_rate_ = 0
  /\ chunks_pushed = << >> /\ chunks_written = << >>
  /\ main_pc = "none"

Init == QueueInit /\ DataInit /\ LifeIdle

\* ------------------------------------------------------------ queue specs
Next ==
  \/ InitializeFresh
  \/ Push
  \/ PushCopy
  \/ PushStore
  \/ Pop
  \/ PopCopy
  \/ PopStore

Spec == Init /\ [][Next]_vars

\* the queue used after Initialize() is called again on it
NextReinit ==
  \/ InitializeAgain
  \/ (Len(pushed) < MaxReinitTotal /\ Push)
  \/ PushCopy
  \/ PushStore
  \/ Pop
  \/ PopCopy
  \/ PopStore

SpecReinit == Init /\ [][NextReinit]_vars

\* Initialize() alone, on a fresh queue and on an initialized one
NextInitialize == InitializeAny

SpecInitialize == Init /\ [][NextInitialize]_vars

\* ------------------------------------------------------------ snapshot spec
NextData ==
  \/ SetCall
  \/ SetLock
  \/ SetRms
  \/ SetCorrelation
  \/ SetBandwidth
  \/ SetSpectrumLeft
  \/ SetSpectrumRight
  \/ SetUnlock
  \/ GetCall
  \/ GetLock
  \/ GetRms
  \/ GetCorrelation
  \/ GetBandwidth
  \/ GetSpectrumLeft
  \/ GetSpectrumRight
  \/ GetUnlock

SpecData == Init /\ [][NextData]_vars

\* ------------------------------------------------------------ the threads
\* analysis_constants.h; the window is reduced to one frame, and the queue
\* holds four windows as in the source (4096 = 4 * 2 * 512)
kChannels == 2

kFftSize == 1

kFrameCount == kFftSize

\* variant: room for two windows only
kRingBufferCapacity_TwoWindows == 2 * kChannels * kFftSize

kRingBufferCapacity == 4 * kChannels * kFftSize

\* Decoder: the size of a sample of MPG123_ENC_FLOAT_32, and of a frame
bytes_per_sample_ == 4

frame_size == kChannels * bytes_per_sample_

\* bounds of the runs: the frames of a chunk, the chunks a decoder yields,
\* the calls of Stop() on one object
MaxFrames == 2
MaxReads == 3
MaxStops == 2

\* the sample rate the decoder reports for the stream, in Hz
StreamSampleRate == 3

\* what mpg123_read() may store in bytes_read when it returns MPG123_OK:
\* whole frames, or less than one frame
ReadSizes ==
  {f * frame_size : f \in 0..MaxFrames} \cup {frame_size - 1}

wk_vars == <<wk_running, wk_thread, wk_pc, wk_init_ret, wk_stop_pc, wk_stops>>

ap_vars == <<ap_running, ap_thread, ap_pc, ap_frames, ap_exit, ap_stop_pc,
             ap_stops, dec_reads, chunks_pushed, chunks_written>>

\* -- AnalysisThread::Initialize(sample_rate, analysis_data), with the
\* Start() it ends with; fft_ok is the result of fft_.Initialize()
\* variant: Start() is reached although fft_.Initialize() failed
WorkerInitialize_StartsAnyway(fft_ok) ==
  /\ main_pc = "initialize"
  /\ IF CapacityInvalid(kRingBufferCapacity)
       THEN /\ init_arg' = kRingBufferCapacity
            /\ init_ret' = "false"
            /\ wk_init_ret' = "false"
            /\ main_pc' = "destroy_worker"
            /\ UNCHANGED <<capacity_, buffer_, inits_ok, wk_running,
                           wk_thread, wk_pc>>
       ELSE /\ init_arg' = kRingBufferCapacity
            /\ init_ret' = "true"
            /\ inits_ok' = inits_ok + 1
            /\ capacity_' = kRingBufferCapacity
            /\ buffer_' = Resize(buffer_, kRingBufferCapacity)
            /\ wk_running' = TRUE
            /\ wk_thread' = "running"
            /\ wk_pc' = "test"
            /\ wk_init_ret' = IF fft_ok THEN "true" ELSE "false"
            /\ main_pc' = IF fft_ok THEN "start" ELSE "destroy_worker"
  /\ UNCHANGED <<head_, tail_, head_hist, tail_hist,
                 pc_p, p_null, p_count, p_data, p_head, p_tail, p_i, p_ret,
                 pc_c, c_null, c_count, c_dest, c_head, c_tail, c_i, c_ret,
                 pushed, popped, ub, size_vars>>
  /\ UNCHANGED <<wk_stop_pc, wk_stops, size_bits, dec_stub, dec_len>>
  /\ sample_rate_' = StreamSampleRate
  /\ UNCHANGED <<data_vars, ap_vars>>

WorkerInitialize(fft_ok) ==
  /\ main_pc = "initialize"
  /\ IF CapacityInvalid(kRingBufferCapacity)
       THEN /\ init_arg' = kRingBufferCapacity
            /\ init_ret' = "false"
            /\ wk_init_ret' = "false"
            /\ main_pc' = "destroy_worker"
            /\ UNCHANGED <<capacity_, buffer_, inits_ok, wk_running,
                           wk_thread, wk_pc>>
       ELSE /\ init_arg' = kRingBufferCapacity
            /\ init_ret' = "true"
            /\ inits_ok' = inits_ok + 1
            /\ capacity_' = kRingBufferCapacity
            /\ buffer_' = Resize(buffer_, kRingBufferCapacity)
            /\ IF fft_ok
                 THEN /\ wk_running' = TRUE
                      /\ wk_thread' = "running"
                      /\ wk_pc' = "test"
                      /\ wk_init_ret' = "true"
                      /\ main_pc' = "start"
                 ELSE /\ wk_init_ret' = "false"
                      /\ main_pc' = "destroy_worker"
                      /\ UNCHANGED <<wk_running, wk_thread, wk_pc>>
  /\ UNCHANGED <<head_, tail_, head_hist, tail_hist,
                 pc_p, p_null, p_count, p_data, p_head, p_tail, p_i, p_ret,
                 pc_c, c_null, c_count, c_dest, c_head, c_tail, c_i, c_ret,
                 pushed, popped, ub, size_vars>>
  /\ UNCHANGED <<wk_stop_pc, wk_stops, size_bits, dec_stub, dec_len>>
  /\ sample_rate_' = StreamSampleRate
  /\ UNCHANGED <<data_vars, ap_vars>>

MainInitialize == \E fft_ok \in BOOLEAN : WorkerInitialize(fft_ok)

\* -- AnalysisThread::Run: while (running_), at the start of the loop, after
\* Set() has returned, and after a failed Pop (continue)
\* variant: the flag is read once, before the loop
WorkerTest_ReadsFlagOnce ==
  /\ wk_thread = "running"
  /\ \/ wk_pc = "test"
     \/ wk_pc = "pop" /\ pc_c = "idle" /\ c_ret = "false"
  /\ c_ret' = "none"
  /\ IF wk_running \/ wk_pc # "test"
       THEN /\ wk_pc' = "pop"
            /\ UNCHANGED wk_thread
       ELSE /\ wk_pc' = "done"
            /\ wk_thread' = "finished"
  /\ UNCHANGED <<capacity_, buffer_, head_, tail_, head_hist, tail_hist,
                 pc_p, p_null, p_count, p_data, p_head, p_tail, p_i, p_ret,
                 pc_c, c_null, c_count, c_dest, c_head, c_tail, c_i,
                 init_arg, init_ret, inits_ok, pushed, popped, ub, size_vars>>
  /\ UNCHANGED <<wk_running, wk_init_ret, wk_stop_pc, wk_stops, size_bits,
                 dec_stub, dec_len, sample_rate_, main_pc>>
  /\ UNCHANGED <<data_vars, ap_vars>>

\* variant: a failed Pop is taken for a successful one
WorkerTest_IgnoresFailure ==
  /\ wk_thread = "running"
  /\ \/ wk_pc = "test"
     \/ wk_pc = "pop" /\ pc_c = "idle" /\ c_ret = "false"
  /\ c_ret' = IF c_ret = "false" THEN "true" ELSE "none"
  /\ IF wk_running
       THEN /\ wk_pc' = "pop"
            /\ UNCHANGED wk_thread
       ELSE /\ wk_pc' = "done"
            /\ wk_thread' = "finished"
  /\ UNCHANGED <<capacity_, buffer_, head_, tail_, head_hist, tail_hist,
                 pc_p, p_null, p_count, p_data, p_head, p_tail, p_i, p_ret,
                 pc_c, c_null, c_count, c_dest, c_head, c_tail, c_i,
                 init_arg, init_ret, inits_ok, pushed, popped, ub, size_vars>>
  /\ UNCHANGED <<wk_running, wk_init_ret, wk_stop_pc, wk_stops, size_bits,
                 dec_stub, dec_len, sample_rate_, main_pc>>
  /\ UNCHANGED <<data_vars, ap_vars>>

\* variant: a failed Pop ends the loop
WorkerTest_ExitsOnFailure ==
  /\ wk_thread = "running"
  /\ \/ wk_pc = "test"
     \/ wk_pc = "pop" /\ pc_c = "idle" /\ c_ret = "false"
  /\ c_ret' = "none"
  /\ IF wk_running /\ c_ret # "false"
       THEN /\ wk_pc' = "pop"
            /\ UNCHANGED wk_thread
       ELSE /\ wk_pc' = "done"
            /\ wk_thread' = "finished"
  /\ UNCHANGED <<capacity_, buffer_, head_, tail_, head_hist, tail_hist,
                 pc_p, p_null, p_count, p_data, p_head, p_tail, p_i, p_ret,
                 pc_c, c_null, c_count, c_dest, c_head, c_tail, c_i,
                 init_arg, init_ret, inits_ok, pushed, popped, ub, size_vars>>
  /\ UNCHANGED <<wk_running, wk_init_ret, wk_stop_pc, wk_stops, size_bits,
                 dec_stub, dec_len, sample_rate_, main_pc>>
  /\ UNCHANGED <<data_vars, ap_vars>>

WorkerTest ==
  /\ wk_thread = "running"
  /\ \/ wk_pc = "test"
     \/ wk_pc = "pop" /\ pc_c = "idle" /\ c_ret = "false"
  /\ c_ret' = "none"
  /\ IF wk_running
       THEN /\ wk_pc' = "pop"
            /\ UNCHANGED wk_thread
       ELSE /\ wk_pc' = "done"
            /\ wk_thread' = "finished"
  /\ UNCHANGED <<capacity_, buffer_, head_, tail_, head_hist, tail_hist,
                 pc_p, p_null, p_count, p_data, p_head, p_tail, p_i, p_ret,
                 pc_c, c_null, c_count, c_dest, c_head, c_tail, c_i,
                 init_arg, init_ret, inits_ok, pushed, popped, ub, size_vars>>
  /\ UNCHANGED <<wk_running, wk_init_ret, wk_stop_pc, wk_stops, size_bits,
                 dec_stub, dec_len, sample_rate_, main_pc>>
  /\ UNCHANGED <<data_vars, ap_vars>>

\* -- Run: buffer_.Pop(interleaved_.data(), kFftSize * kChannels)
WorkerPop ==
  /\ wk_thread = "running"
  /\ wk_pc = "pop"
  /\ c_ret = "none"
  /\ PopCall(FALSE, kFftSize * kChannels)

\* ------------------------------------------------------------ the metrics
\* The floats of the analysis are modelled as exact rationals <<num, den>> in
\* lowest terms with den > 0: the arithmetic is the code's, without rounding.
\* Each operation binds its operands first ({x} has one element), so that an
\* operand is evaluated once however often the result is used.
Abs(x) == IF x < 0 THEN -x ELSE x

RECURSIVE Gcd(_, _)
Gcd(a, b) ==
  IF b = 0 THEN a ELSE CHOOSE g \in {Gcd(b, r) : r \in {a % b}} : TRUE

Reduced(n, d) ==
  CHOOSE f \in {<<(s * n) \div g, (s * d) \div g>> :
                  g \in {Gcd(Abs(n), Abs(d))},
                  s \in {IF d < 0 THEN -1 ELSE 1}} : TRUE

Float(num, den) ==
  CHOOSE f \in {Reduced(n, d) : n \in {num}, d \in {den}} : TRUE

FromInt(i) == <<i, 1>>

FloatAdd(x, y) ==
  CHOOSE f \in {Float(a[1] * b[2] + b[1] * a[2], a[2] * b[2]) :
                  a \in {x}, b \in {y}} : TRUE

FloatSub(x, y) ==
  CHOOSE f \in {Float(a[1] * b[2] - b[1] * a[2], a[2] * b[2]) :
                  a \in {x}, b \in {y}} : TRUE

FloatMul(x, y) ==
  CHOOSE f \in {Float(a[1] * b[1], a[2] * b[2]) : a \in {x}, b \in {y}} : TRUE

\* y is not zero
FloatDiv(x, y) ==
  CHOOSE f \in {Float(a[1] * b[2], a[2] * b[1]) : a \in {x}, b \in {y}} : TRUE

FloatLess(x, y) ==
  \E a \in {x}, b \in {y} : a[1] * b[2] < b[1] * a[2]

\* std::sqrt of a float that is not negative, kept as the root of its
\* argument: two roots are equal exactly when their arguments are
Sqrt(x) == [sqrt_of |-> x]

\* Sqrt(x) > t, for t >= 0
SqrtGreater(root, t) == FloatLess(FloatMul(t, t), root.sqrt_of)

\* a scalar v of the queue is the sample v / SampleScale
SampleScale == 10

SampleOf(v) == Float(v, SampleScale)

\* the sum of a sequence of floats, in the order of the loops
RECURSIVE SumFloats(_)
SumFloats(s) ==
  IF s = << >> THEN FromInt(0)
  ELSE FloatAdd(SumFloats(SubSeq(s, 1, Len(s) - 1)), s[Len(s)])

\* analysis_constants.h: kFftBinCount = kFftSize / 2, for a window of n frames
\* variant: the scan goes up to the last output bin, n / 2
kFftBinCount_WithNyquist(n) == n \div 2 + 1

kFftBinCount(n) == n \div 2

\* analysis_thread.cpp: kFftSizeInverse = 1.0F / kFftSize
kFftSizeInverse(n) == Float(1, n)

kEnergyThreshold == Float(1, 10)

\* Run: the de-interleaving of the popped batch into the two inputs of the
\* transform (0-based i: left = interleaved_[2 i], right = interleaved_[2 i + 1])
InputLeft(interleaved, n) ==
  [i \in 1..n |-> SampleOf(interleaved[2 * (i - 1) + 1])]

\* variant: the right channel is taken from the even offsets too
InputRight_EvenOffsets(interleaved, n) ==
  [i \in 1..n |-> SampleOf(interleaved[2 * (i - 1) + 1])]

InputRight(interleaved, n) ==
  [i \in 1..n |-> SampleOf(interleaved[2 * (i - 1) + 2])]

\* FftwWrapper::Execute: fftwf_plan_dft_r2c_1d, the discrete Fourier transform
\* of a real input of n values, bins 0 .. n / 2, each <<re, im>>:
\* X[k] = sum_j x[j] * exp(-2 pi i j k / n).  The windows of the model have
\* 1, 2 or 4 frames, whose rotations are quarter turns.
QuarterTurns(n, m) == ((4 \div n) * m) % 4

Cos(n, m) ==
  CASE QuarterTurns(n, m) = 0 -> 1
    [] QuarterTurns(n, m) = 1 -> 0
    [] QuarterTurns(n, m) = 2 -> -1
    [] QuarterTurns(n, m) = 3 -> 0

Sin(n, m) ==
  CASE QuarterTurns(n, m) = 0 -> 0
    [] QuarterTurns(n, m) = 1 -> 1
    [] QuarterTurns(n, m) = 2 -> 0
    [] QuarterTurns(n, m) = 3 -> -1

Execute(input, n) ==
  [b \in 1..(n \div 2 + 1) |->
     << SumFloats([j \in 1..n |->
          FloatMul(input[j], FromInt(Cos(n, (j - 1) * (b - 1))))]),
        SumFloats([j \in 1..n |->
          FloatMul(input[j], FromInt(-Sin(n, (j - 1) * (b - 1))))]) >>]

\* std::sqrt(re * re + im * im) of one output bin
Magnitude(bin) ==
  Sqrt(FloatAdd(FloatMul(bin[1], bin[1]), FloatMul(bin[2], bin[2])))

\* -- AnalysisThread::CalculateRms: per channel the root of the mean square,
\* then the mean of the two channels, kept as (root + root) / kChannels
SumOfSquares(input) ==
  SumFloats([i \in 1..Len(input) |-> FloatMul(input[i], input[i])])

ChannelRms(input, n) == Sqrt(FloatDiv(SumOfSquares(input), FromInt(n)))

CalculateRms(input_left, input_right, n) ==
  [sum |-> <<ChannelRms(input_left, n), ChannelRms(input_right, n)>>,
   over |-> kChannels]

\* -- AnalysisThread::CalculateStereoCorrelation
\* variant: the sum of the products is not scaled by 1 / kFftSize
CalculateStereoCorrelation_NoScale(input_left, input_right, n) ==
  SumFloats([i \in 1..n |-> FloatMul(input_left[i], input_right[i])])

CalculateStereoCorrelation(input_left, input_right, n) ==
  FloatMul(SumFloats([i \in 1..n |->
                        FloatMul(input_left[i], input_right[i])]),
           kFftSizeInverse(n))

\* -- AnalysisThread::CalculateBandwidth: the loop over the bins from bin i on,
\* min_freq and max_freq being -1 until a bin exceeds the threshold
RECURSIVE BandwidthLoop(_, _, _, _, _, _)
BandwidthLoop(output, n, sample_rate, i, min_freq, max_freq) ==
  IF i < kFftBinCount(n)
    THEN LET magnitude == Magnitude(output[i + 1])
             freq == FloatMul(FloatMul(FromInt(i), FromInt(sample_rate)),
                              kFftSizeInverse(n))
         IN  IF SqrtGreater(magnitude, kEnergyThreshold)
               THEN BandwidthLoop(output, n, sample_rate, i + 1,
                                  IF FloatLess(min_freq, FromInt(0))
                                    THEN freq ELSE min_freq,
                                  freq)
               ELSE BandwidthLoop(output, n, sample_rate, i + 1,
                                  min_freq, max_freq)
    ELSE FloatSub(max_freq, min_freq)

\* variant: a channel without a bin above the threshold yields the sentinel
CalculateBandwidth_Sentinel(output, n, sample_rate) ==
  IF \E i \in 0..(kFftBinCount(n) - 1) :
       SqrtGreater(Magnitude(output[i + 1]), kEnergyThreshold)
    THEN BandwidthLoop(output, n, sample_rate, 0, FromInt(-1), FromInt(-1))
    ELSE FromInt(-1)

CalculateBandwidth(output, n, sample_rate) ==
  BandwidthLoop(output, n, sample_rate, 0, FromInt(-1), FromInt(-1))

\* -- AnalysisThread::CalculateAverageBandwidth
CalculateAverageBandwidth(output_left, output_right, n, sample_rate) ==
  FloatDiv(FloatAdd(CalculateBandwidth(output_left, n, sample_rate),
                    CalculateBandwidth(output_right, n, sample_rate)),
           FromInt(kChannels))

\* -- AnalysisThread::CalculateMagnitudes, for one channel
CalculateMagnitudes(output, n) ==
  [i \in 1..kFftBinCount(n) |-> Magnitude(output[i])]

\* AnalysisData before the first Set, for a window of n frames: 0.0F, and
\* kFftBinCount zeros in each spectrum; the zero of an RMS as CalculateRms
\* yields it
SnapshotInit(n) ==
  DataInitAs([sum |-> <<Sqrt(FromInt(0)), Sqrt(FromInt(0))>>,
              over |-> kChannels],
             FromInt(0),
             [i \in 1..kFftBinCount(n) |-> Sqrt(FromInt(0))])

\* -- AnalysisThread::Run after a successful Pop, for a window of n frames:
\* the de-interleaving, fft_.Execute(), the four Calculate...() and
\* analysis_data_->Set(), whose critical section is one step here (SpecData
\* has it member by member)
AnalyzeBatch(n) ==
  LET input_left == InputLeft(c_dest, n)
      input_right == InputRight(c_dest, n)
      output_left == Execute(input_left, n)
      output_right == Execute(input_right, n)
  IN
  /\ wk_thread = "running"
  /\ wk_pc = "pop" /\ pc_c = "idle" /\ c_ret = "true"
  /\ pc_w = "idle"
  /\ MutexFree
  /\ c_ret' = "none"
  /\ wk_pc' = "test"
  /\ sets_called' = sets_called + 1
  /\ w_arg' = sets_called + 1
  /\ rms_' = CalculateRms(input_left, input_right, n)
  /\ correlation_' = CalculateStereoCorrelation(input_left, input_right, n)
  /\ bandwidth_' = CalculateAverageBandwidth(output_left, output_right, n,
                                             sample_rate_)
  /\ spectrum_left_' = CalculateMagnitudes(output_left, n)
  /\ spectrum_right_' = CalculateMagnitudes(output_right, n)
  /\ sets_done' = sets_called + 1
  /\ UNCHANGED <<capacity_, buffer_, head_, tail_, head_hist, tail_hist,
                 pc_p, p_null, p_count, p_data, p_head, p_tail, p_i, p_ret,
                 pc_c, c_null, c_count, c_dest, c_head, c_tail, c_i,
                 init_arg, init_ret, inits_ok, pushed, popped, ub, size_vars>>
  /\ UNCHANGED <<mutex_, pc_w, pc_r, g_rms, g_correlation, g_bandwidth,
                 g_spectrum_left, g_spectrum_right, g_locked_at, g_prev,
                 gets_called>>
  /\ UNCHANGED <<wk_running, wk_thread, wk_init_ret, wk_stop_pc, wk_stops,
                 size_bits, dec_stub, dec_len, sample_rate_, main_pc>>
  /\ UNCHANGED ap_vars

WorkerAnalyze == AnalyzeBatch(kFftSize)

\* -- AnalysisThread::Stop(), called by the main thread: running_ = false
WorkerStopStore ==
  /\ main_pc = "destroy_worker"
  /\ wk_stop_pc = "idle"
  /\ wk_stops < MaxStops
  /\ wk_running' = FALSE
  /\ wk_stop_pc' = "join"
  /\ UNCHANGED <<wk_thread, wk_pc, wk_init_ret, wk_stops, size_bits,
                 dec_stub, dec_len, sample_rate_, main_pc>>
  /\ UNCHANGED <<queue_vars, data_vars, ap_vars>>

\* -- Stop(): if (thread_.joinable()) thread_.join(); join() returns when
\* Run has returned.  The main thread then calls Stop() again or goes on.
\* variant: returns without waiting for the thread
WorkerStopJoin_NoWait(again) ==
  /\ wk_stop_pc = "join"
  /\ wk_thread' = IF wk_thread = "finished" THEN "joined" ELSE wk_thread
  /\ wk_stop_pc' = "idle"
  /\ wk_stops' = wk_stops + 1
  /\ main_pc' = IF again /\ wk_stops + 1 < MaxStops
                  THEN "destroy_worker" ELSE "exit"
  /\ UNCHANGED <<wk_running, wk_pc, wk_init_ret, size_bits, dec_stub, dec_len, sample_rate_>>
  /\ UNCHANGED <<queue_vars, data_vars, ap_vars>>

\* variant: joins without the joinable() test, and join() of a thread that is
\* not joinable does not return
WorkerStopJoin_NoJoinableTest(again) ==
  /\ wk_stop_pc = "join"
  /\ wk_thread = "finished"
  /\ wk_thread' = "joined"
  /\ wk_stop_pc' = "idle"
  /\ wk_stops' = wk_stops + 1
  /\ main_pc' = IF again /\ wk_stops + 1 < MaxStops
                  THEN "destroy_worker" ELSE "exit"
  /\ UNCHANGED <<wk_running, wk_pc, wk_init_ret, size_bits, dec_stub, dec_len, sample_rate_>>
  /\ UNCHANGED <<queue_vars, data_vars, ap_vars>>

WorkerStopJoin(again) ==
  /\ wk_stop_pc = "join"
  /\ wk_thread # "running"
  /\ wk_thread' = IF wk_thread = "finished" THEN "joined" ELSE wk_thread
  /\ wk_stop_pc' = "idle"
  /\ wk_stops' = wk_stops + 1
  /\ main_pc' = IF again /\ wk_stops + 1 < MaxStops
                  THEN "destroy_worker" ELSE "exit"
  /\ UNCHANGED <<wk_running, wk_pc, wk_init_ret, size_bits, dec_stub, dec_len, sample_rate_>>
  /\ UNCHANGED <<queue_vars, data_vars, ap_vars>>

WorkerStop == \E again \in BOOLEAN : WorkerStopJoin(again)

\* -- AudioPipeline::Start(), called by the main thread
PipelineStart ==
  /\ main_pc = "start"
  /\ ap_running' = TRUE
  /\ ap_thread' = "running"
  /\ ap_pc' = "test"
  /\ main_pc' = "render"
  /\ UNCHANGED <<ap_frames, ap_exit, ap_stop_pc, ap_stops, dec_reads,
                 chunks_pushed, chunks_written, size_bits, dec_stub, dec_len, sample_rate_>>
  /\ UNCHANGED <<queue_vars, data_vars, wk_vars>>

\* what a step of AudioPipeline::Run leaves alone besides its own variables
PipelineFrame ==
  /\ UNCHANGED <<ap_running, ap_thread, ap_stop_pc, ap_stops, size_bits,
                 dec_stub, dec_len, sample_rate_, main_pc>>
  /\ UNCHANGED <<capacity_, buffer_, head_, tail_, head_hist, tail_hist,
                 pc_p, p_null, p_count, p_data, p_head, p_tail, p_i,
                 pc_c, c_null, c_count, c_dest, c_head, c_tail, c_i, c_ret,
                 init_arg, init_ret, inits_ok, pushed, popped, ub, size_vars>>
  /\ UNCHANGED <<data_vars, wk_vars>>

\* the results decoder_.Read(bytes_read) may have: "ok" (MPG123_OK) with the
\* bytes read, "done" (MPG123_DONE) and "error".  A stub of dec_stub chunks
\* yields that many chunks of kFftSize frames and then the end of the stream;
\* any other decoder yields at most dec_len chunks.
ReadResults ==
  IF dec_stub > 0
    THEN IF dec_reads < dec_stub
           THEN {<<"ok", kFftSize * frame_size>>}
           ELSE {<<"done", 0>>}
    ELSE {<<"done", 0>>, <<"error", 0>>} \cup
         {<<"ok", b>> : b \in {n \in ReadSizes :
                                 /\ dec_reads < dec_len
                                 /\ Len(pushed) + (n \div frame_size) * 2
                                      <= MaxTotal}}

\* -- Run: while (running_ && decoder_.Read(bytes_read)), and
\* frames = bytes_read / decoder_.frame_size()
\* variant: the flag is not part of the loop's condition
PipelineTest_IgnoresFlag ==
  /\ ap_thread = "running"
  /\ ap_pc = "test"
  /\ \E r \in ReadResults :
       /\ dec_reads' = dec_reads + 1
       /\ IF r[1] = "ok"
            THEN /\ ap_frames' = r[2] \div frame_size
                 /\ ap_pc' = "push"
                 /\ UNCHANGED ap_exit
            ELSE /\ ap_exit' = IF r[1] = "done" THEN "eos" ELSE "error"
                 /\ ap_pc' = "clear"
                 /\ UNCHANGED ap_frames
  /\ UNCHANGED <<p_ret, chunks_pushed, chunks_written>>
  /\ PipelineFrame

PipelineTest ==
  /\ ap_thread = "running"
  /\ ap_pc = "test"
  /\ IF ~ap_running
       THEN /\ ap_exit' = "stop"
            /\ ap_pc' = "clear"
            /\ UNCHANGED <<ap_frames, dec_reads>>
       ELSE \E r \in ReadResults :
              /\ dec_reads' = dec_reads + 1
              /\ IF r[1] = "ok"
                   THEN /\ ap_frames' = r[2] \div frame_size
                        /\ ap_pc' = "push"
                        /\ UNCHANGED ap_exit
                   ELSE /\ ap_exit' = IF r[1] = "done" THEN "eos" ELSE "error"
                        /\ ap_pc' = "clear"
                        /\ UNCHANGED ap_frames
  /\ UNCHANGED <<p_ret, chunks_pushed, chunks_written>>
  /\ PipelineFrame

\* -- Run: analysis_thread_.buffer().Push(decoder_.buffer_data(), frames * 2)
PipelinePush ==
  /\ ap_thread = "running"
  /\ ap_pc = "push"
  /\ p_ret = "none"
  /\ PushCall(FALSE, ap_frames * 2)

\* -- Run: Push returned false: break
\* variant: a failed Push is tried again
PipelinePushFailed_Retries ==
  /\ ap_thread = "running"
  /\ ap_pc = "push" /\ pc_p = "idle" /\ p_ret = "false"
  /\ p_ret' = "none"
  /\ UNCHANGED <<ap_pc, ap_exit, ap_frames, dec_reads, chunks_pushed,
                 chunks_written>>
  /\ PipelineFrame

PipelinePushFailed ==
  /\ ap_thread = "running"
  /\ ap_pc = "push" /\ pc_p = "idle" /\ p_ret = "false"
  /\ p_ret' = "none"
  /\ ap_exit' = "push"
  /\ ap_pc' = "clear"
  /\ UNCHANGED <<ap_frames, dec_reads, chunks_pushed, chunks_written>>
  /\ PipelineFrame

\* -- Run: Push returned true: go on to the device
PipelinePushed ==
  /\ ap_thread = "running"
  /\ ap_pc = "push" /\ pc_p = "idle" /\ p_ret = "true"
  /\ p_ret' = "none"
  /\ chunks_pushed' = Append(chunks_pushed, dec_reads)
  /\ ap_pc' = "write"
  /\ UNCHANGED <<ap_frames, ap_exit, dec_reads, chunks_written>>
  /\ PipelineFrame

\* -- Run: audio_output_.WriteStream(decoder_.buffer_data(), frames), which
\* blocks until the frames are accepted and returns whether they were
\* variant: the chunk is written whether or not it was pushed
PipelineWrite_BeforePush(ok) ==
  /\ ap_thread = "running"
  /\ ap_pc \in {"push", "write"} /\ pc_p = "idle"
  /\ IF ok
       THEN /\ chunks_written' = Append(chunks_written, dec_reads)
            /\ ap_pc' = IF ap_pc = "write" THEN "test" ELSE ap_pc
            /\ UNCHANGED ap_exit
       ELSE /\ ap_exit' = "write"
            /\ ap_pc' = "clear"
            /\ UNCHANGED chunks_written
  /\ UNCHANGED <<p_ret, ap_frames, dec_reads, chunks_pushed>>
  /\ PipelineFrame

PipelineWrite(ok) ==
  /\ ap_thread = "running"
  /\ ap_pc = "write"
  /\ IF ok
       THEN /\ chunks_written' = Append(chunks_written, dec_reads)
            /\ ap_pc' = "test"
            /\ UNCHANGED ap_exit
       ELSE /\ ap_exit' = "write"
            /\ ap_pc' = "clear"
            /\ UNCHANGED chunks_written
  /\ UNCHANGED <<p_ret, ap_frames, dec_reads, chunks_pushed>>
  /\ PipelineFrame

\* the device of the scenario never fails; any other device may
PipelineWriteStream ==
  \E ok \in (IF dec_stub > 0 THEN {TRUE} ELSE BOOLEAN) : PipelineWrite(ok)

\* -- Run: running_ = false, and Run returns
\* variant: the loop is left without the flag being cleared
PipelineClear_KeepsFlag ==
  /\ ap_thread = "running"
  /\ ap_pc = "clear"
  /\ ap_pc' = "done"
  /\ ap_thread' = "finished"
  /\ UNCHANGED <<ap_running, ap_frames, ap_exit, ap_stop_pc, ap_stops,
                 dec_reads, chunks_pushed, chunks_written, size_bits,
                 dec_stub, dec_len, sample_rate_, main_pc>>
  /\ UNCHANGED <<queue_vars, data_vars, wk_vars>>

PipelineClear ==
  /\ ap_thread = "running"
  /\ ap_pc = "clear"
  /\ ap_running' = FALSE
  /\ ap_pc' = "done"
  /\ ap_thread' = "finished"
  /\ UNCHANGED <<ap_frames, ap_exit, ap_stop_pc, ap_stops, dec_reads,
                 chunks_pushed, chunks_written, size_bits, dec_stub, dec_len, sample_rate_, main_pc>>
  /\ UNCHANGED <<queue_vars, data_vars, wk_vars>>

\* -- AudioPipeline::Stop(), called by the main thread: running_ = false
PipelineStopStore ==
  /\ main_pc = "destroy_pipeline"
  /\ ap_stop_pc = "idle"
  /\ ap_stops < MaxStops
  /\ ap_running' = FALSE
  /\ ap_stop_pc' = "join"
  /\ UNCHANGED <<ap_thread, ap_pc, ap_frames, ap_exit, ap_stops, dec_reads,
                 chunks_pushed, chunks_written, size_bits, dec_stub, dec_len, sample_rate_, main_pc>>
  /\ UNCHANGED <<queue_vars, data_vars, wk_vars>>

\* -- Stop(): if (thread_.joinable()) thread_.join().  The main thread then
\* calls Stop() again or goes on to the worker.
\* variant: returns without waiting for the thread
PipelineStopJoin_NoWait(again) ==
  /\ ap_stop_pc = "join"
  /\ ap_thread' = IF ap_thread = "finished" THEN "joined" ELSE ap_thread
  /\ ap_stop_pc' = "idle"
  /\ ap_stops' = ap_stops + 1
  /\ main_pc' = IF again /\ ap_stops + 1 < MaxStops
                  THEN "destroy_pipeline" ELSE "destroy_worker"
  /\ UNCHANGED <<ap_running, ap_pc, ap_frames, ap_exit, dec_reads,
                 chunks_pushed, chunks_written, size_bits, dec_stub, dec_len, sample_rate_>>
  /\ UNCHANGED <<queue_vars, data_vars, wk_vars>>

PipelineStopJoin(again) ==
  /\ ap_stop_pc = "join"
  /\ ap_thread # "running"
  /\ ap_thread' = IF ap_thread = "finished" THEN "joined" ELSE ap_thread
  /\ ap_stop_pc' = "idle"
  /\ ap_stops' = ap_stops + 1
  /\ main_pc' = IF again /\ ap_stops + 1 < MaxStops
                  THEN "destroy_pipeline" ELSE "destroy_worker"
  /\ UNCHANGED <<ap_running, ap_pc, ap_frames, ap_exit, dec_reads,
                 chunks_pushed, chunks_written, size_bits, dec_stub, dec_len, sample_rate_>>
  /\ UNCHANGED <<queue_vars, data_vars, wk_vars>>

PipelineStop == \E again \in BOOLEAN : PipelineStopJoin(again)

\* -- Visualizer::Run(running), on the main thread:
\* while (glfwWindowShouldClose(...) == GLFW_FALSE && running), then
\* Update(), which calls analysis_data_->Get(), whose critical section is
\* one step here (SpecData has it member by member); close is whether the
\* window is to be closed, and gets_called keeps the parity of the frames
\* rendered, a frame being a step even when the snapshot has not changed.
\* When the loop is left the objects are destroyed.
\* variant: the loop does not look at the flag
VisualizerRun_IgnoresFlag(close) ==
  /\ main_pc = "render"
  /\ IF ~close
       THEN /\ MutexFree
            /\ g_rms' = rms_
            /\ g_correlation' = correlation_
            /\ g_bandwidth' = bandwidth_
            /\ g_spectrum_left' = spectrum_left_
            /\ g_spectrum_right' = spectrum_right_
            /\ gets_called' = (gets_called + 1) % 2
            /\ UNCHANGED main_pc
       ELSE /\ main_pc' = "destroy_pipeline"
            /\ UNCHANGED <<g_rms, g_correlation, g_bandwidth,
                           g_spectrum_left, g_spectrum_right, gets_called>>
  /\ UNCHANGED <<mutex_, rms_, correlation_, bandwidth_, spectrum_left_,
                 spectrum_right_, pc_w, w_arg, pc_r, sets_called, sets_done,
                 g_locked_at, g_prev>>
  /\ UNCHANGED <<size_bits, dec_stub, dec_len, sample_rate_>>
  /\ UNCHANGED <<queue_vars, wk_vars, ap_vars>>

VisualizerRun(close) ==
  /\ main_pc = "render"
  /\ IF ~close /\ ap_running
       THEN /\ MutexFree
            /\ g_rms' = rms_
            /\ g_correlation' = correlation_
            /\ g_bandwidth' = bandwidth_
            /\ g_spectrum_left' = spectrum_left_
            /\ g_spectrum_right' = spectrum_right_
            /\ gets_called' = (gets_called + 1) % 2
            /\ UNCHANGED main_pc
       ELSE /\ main_pc' = "destroy_pipeline"
            /\ UNCHANGED <<g_rms, g_correlation, g_bandwidth,
                           g_spectrum_left, g_spectrum_right, gets_called>>
  /\ UNCHANGED <<mutex_, rms_, correlation_, bandwidth_, spectrum_left_,
                 spectrum_right_, pc_w, w_arg, pc_r, sets_called, sets_done,
                 g_locked_at, g_prev>>
  /\ UNCHANGED <<size_bits, dec_stub, dec_len, sample_rate_>>
  /\ UNCHANGED <<queue_vars, wk_vars, ap_vars>>

MainRender == \E close \in BOOLEAN : VisualizerRun(close)

\* ------------------------------------------------------------ pipeline spec
\* after the constructors: running_ of AnalysisThread has no initializer,
\* running_ of AudioPipeline is false; size_t has one bit more than in the
\* queue's own runs, for a queue of four windows
LifeInit(stub, len) ==
  /\ size_bits = CursorBits + 1
  /\ wk_running \in BOOLEAN /\ wk_thread = "none" /\ wk_pc = "none"
  /\ wk_init_ret = "none" /\ wk_stop_pc = "idle" /\ wk_stops = 0
  /\ ap_running = FALSE /\ ap_thread = "none" /\ ap_pc = "none"
  /\ ap_frames = 0 /\ ap_exit = "none" /\ ap_stop_pc = "idle" /\ ap_stops = 0
  /\ dec_reads = 0 /\ dec_stub = stub /\ dec_len = len
  /\ sample_rate_ = 0
  /\ chunks_pushed = << >> /\ chunks_written = << >>
  /\ main_pc = "initialize"

PipelineInit == QueueInit /\ SnapshotInit(kFftSize) /\ LifeInit(0, MaxReads)

NextPipeline ==
  \/ MainInitialize
  \/ WorkerTest
  \/ WorkerPop
  \/ PopCopy
  \/ PopStore
  \/ WorkerAnalyze
  \/ PipelineStart
  \/ PipelineTest
  \/ PipelinePush
  \/ PushCopy
  \/ PushStore
  \/ PipelinePushFailed
  \/ PipelinePushed
  \/ PipelineWriteStream
  \/ PipelineClear
  \/ MainRender
  \/ PipelineStopStore
  \/ PipelineStop
  \/ WorkerStopStore
  \/ WorkerStop

SpecPipeline == PipelineInit /\ [][NextPipeline]_vars

\* the steps of the three threads
WorkerNext == WorkerTest \/ WorkerPop \/ PopCopy \/ PopStore \/ WorkerAnalyze

CoordinatorNext ==
  \/ PipelineTest
  \/ PipelinePush
  \/ PushCopy
  \/ PushStore
  \/ PipelinePushFailed
  \/ PipelinePushed
  \/ PipelineWriteStream
  \/ PipelineClear

MainNext ==
  \/ MainInitialize
  \/ PipelineStart
  \/ MainRender
  \/ PipelineStopStore
  \/ PipelineStop
  \/ WorkerStopStore
  \/ WorkerStop

\* the same program on a stream of at most MaxFairReads chunks, every thread
\* that can take a step eventually taking one
MaxFairReads == 1

FairInit == QueueInit /\ SnapshotInit(kFftSize) /\ LifeInit(0, MaxFairReads)

SpecPipelineFair ==
  /\ FairInit
  /\ [][NextPipeline]_vars
  /\ WF_vars(WorkerNext)
  /\ WF_vars(CoordinatorNext)
  /\ WF_vars(MainNext)


\* ---------------------------------------------------------- scenario spec
\* the end-to-end scenario: a decoder stub of ScenarioChunks chunks of
\* kFftSize frames followed by the end of the stream, a device that accepts
\* every chunk, a worker whose Initialize succeeds, and nobody who stops
\* either thread.  A Push that returned false would stay in p_ret.
ScenarioChunks == 4

ScenarioInit == QueueInit /\ SnapshotInit(kFftSize) /\ LifeInit(ScenarioChunks, ScenarioChunks)

ScenarioInitialize == WorkerInitialize(TRUE)

ScenarioCoordinator ==
  \/ PipelineTest
  \/ PipelinePush
  \/ PushCopy
  \/ PushStore
  \/ PipelinePushed
  \/ PipelineWriteStream
  \/ PipelineClear

NextScenario ==
  \/ ScenarioInitialize
  \/ PipelineStart
  \/ WorkerTest
  \/ WorkerPop
  \/ PopCopy
  \/ PopStore
  \/ WorkerAnalyze
  \/ PipelineTest
  \/ PipelinePush
  \/ PushCopy
  \/ PushStore
  \/ PipelinePushed
  \/ PipelineWriteStream
  \/ PipelineClear

\* a Pop of the worker whose acquire load of head_ returns the latest store
WorkerPopSeesHead == WorkerPop /\ Len(head_hist') = 1

\* the test's thread sets the two objects up, both threads are scheduled, and
\* a store to head_ becomes visible to the loads of the polling worker
SpecScenario ==
  /\ ScenarioInit
  /\ [][NextScenario]_vars
  /\ WF_vars(ScenarioInitialize \/ PipelineStart)
  /\ WF_vars(WorkerNext)
  /\ WF_vars(ScenarioCoordinator)
  /\ SF_vars(WorkerPopSeesHead)

\* ---------------------------------------------------------- playback spec
\* a whole stream played: a decoder that never fails and yields
\* PlaybackChunks chunks of kFftSize frames (each at least one frame and no
\* more than the queue's capacity) and then the end of the stream, a device
\* that accepts every chunk, a worker whose Initialize succeeds, and nobody
\* who stops either thread
PlaybackChunks == 5

PlaybackInit ==
  QueueInit /\ SnapshotInit(kFftSize) /\ LifeInit(PlaybackChunks, PlaybackChunks)

PlaybackCoordinator == ScenarioCoordinator \/ PipelinePushFailed

NextPlayback ==
  \/ ScenarioInitialize
  \/ PipelineStart
  \/ WorkerTest
  \/ WorkerPop
  \/ PopCopy
  \/ PopStore
  \/ WorkerAnalyze
  \/ PipelineTest
  \/ PipelinePush
  \/ PushCopy
  \/ PushStore
  \/ PipelinePushFailed
  \/ PipelinePushed
  \/ PipelineWriteStream
  \/ PipelineClear

\* the main thread sets the objects up, the worker and the coordinator are
\* scheduled, and a store to head_ becomes visible to the polling worker
SpecPlayback ==
  /\ PlaybackInit
  /\ [][NextPlayback]_vars
  /\ WF_vars(ScenarioInitialize \/ PipelineStart)
  /\ WF_vars(WorkerNext)
  /\ WF_vars(PlaybackCoordinator)
  /\ SF_vars(WorkerPopSeesHead)

\* ------------------------------------------------------------ worker spec
\* AnalysisThread on its own: its owner initializes it and destroys it at a
\* time of its choice, while a producer pushes batches of any size into
\* buffer() (at most until MaxWorkerTotal values are in) and a reader calls
\* Get() on the snapshot (at most MaxWorkerGets times)
MaxWorkerTotal == 4
MaxWorkerGets == 1

\* the owner lets the AnalysisThread go out of scope
WorkerDestroy ==
  /\ main_pc = "start"
  /\ main_pc' = "destroy_worker"
  /\ UNCHANGED <<size_bits, dec_stub, dec_len, sample_rate_>>
  /\ UNCHANGED <<queue_vars, data_vars, wk_vars, ap_vars>>

\* the producer pushes up to one window at a time
ProducerPush ==
  /\ wk_init_ret = "true"
  /\ wk_stops = 0
  /\ Len(pushed) < MaxWorkerTotal
  /\ \E count \in 1..(kFftSize * kChannels) : PushCall(FALSE, count)

ReaderGet ==
  /\ gets_called < MaxWorkerGets
  /\ GetCall

\* the steps of Get() under the mutex
ReaderInGet ==
  \/ GetRms
  \/ GetCorrelation
  \/ GetBandwidth
  \/ GetSpectrumLeft
  \/ GetSpectrumRight
  \/ GetUnlock

NextWorker ==
  \/ MainInitialize
  \/ WorkerDestroy
  \/ WorkerStopStore
  \/ WorkerStop
  \/ WorkerTest
  \/ WorkerPop
  \/ PopCopy
  \/ PopStore
  \/ WorkerAnalyze
  \/ ProducerPush
  \/ PushCopy
  \/ PushStore
  \/ ReaderGet
  \/ GetLock
  \/ ReaderInGet

WorkerInit == QueueInit /\ SnapshotInit(kFftSize) /\ LifeInit(0, 0)

\* the worker's thread is scheduled, and so are a thread that is in Stop()
\* and a reader that holds the mutex; nothing is asked of the producer, of
\* the time of the destruction or of a reader outside the mutex
SpecWorker ==
  /\ WorkerInit
  /\ [][NextWorker]_vars
  /\ WF_vars(WorkerNext)
  /\ WF_vars(WorkerStop)
  /\ WF_vars(ReaderInGet)

\* the worker's acquire load of head_ returns the latest store again and
\* again: a store becomes visible to the other thread in a finite time
SpecWorkerDrain == SpecWorker /\ SF_vars(WorkerPopSeesHead)

\* ------------------------------------------------------------ the queue's test
\* ring_buffer_test.cpp: the producer thread pushes kNumberOfIntegers values
\* one at a time, the consumer thread pops as many one at a time, and each
\* repeats a call that returned false.  The values are numbered from 1 here.
kNumberOfIntegers == 3

\* the capacities Initialize() accepts
TestCapacities == {c \in 1..MaxCapacity : ~CapacityInvalid(c)}

\* after buffer.Initialize(capacity) has returned true
TestInit ==
  /\ capacity_ \in TestCapacities
  /\ buffer_ = Resize(<< >>, capacity_)
  /\ head_ = 0 /\ tail_ = 0
  /\ head_hist = <<0>> /\ tail_hist = <<0>>
  /\ pc_p = "idle" /\ p_null = FALSE /\ p_count = 0 /\ p_data = << >>
  /\ p_head = 0 /\ p_tail = 0 /\ p_i = 0 /\ p_ret = "none"
  /\ pc_c = "idle" /\ c_null = FALSE /\ c_count = 0 /\ c_dest = << >>
  /\ c_head = 0 /\ c_tail = 0 /\ c_i = 0 /\ c_ret = "none"
  /\ init_arg = capacity_ /\ init_ret = "true" /\ inits_ok = 1
  /\ pushed = << >> /\ popped = << >> /\ ub = FALSE
  /\ sz_caller = "none" /\ sz_pc = "idle" /\ sz_head = 0 /\ sz_ret = 0
  /\ DataInit
  /\ LifeIdle

\* producer: while (!buffer.Push(&i, 1)) {} for i < kNumberOfIntegers
\* variant: the producer gives up after a Push that returned false
TestPush_NoRetry ==
  /\ Len(pushed) < kNumberOfIntegers
  /\ p_ret # "false"
  /\ PushCall(FALSE, 1)

TestPush ==
  /\ Len(pushed) < kNumberOfIntegers
  /\ PushCall(FALSE, 1)

\* consumer: while (!buffer.Pop(&value, 1)) {} for i < kNumberOfIntegers
TestPop ==
  /\ Len(popped) < kNumberOfIntegers
  /\ PopCall(FALSE, 1)

TestProducer == TestPush \/ PushCopy \/ PushStore

TestConsumer == TestPop \/ PopCopy \/ PopStore

NextTest ==
  \/ TestPush
  \/ PushCopy
  \/ PushStore
  \/ TestPop
  \/ PopCopy
  \/ PopStore

\* a Push or a Pop whose acquire load returns the latest store of the cursor
TestPushSeesTail == TestPush /\ Len(tail_hist') = 1

TestPopSeesHead == TestPop /\ Len(head_hist') = 1

\* both threads are scheduled, and a store to a cursor becomes visible to the
\* polling loads of the other thread in a finite time
SpecTest ==
  /\ TestInit
  /\ [][NextTest]_vars
  /\ WF_vars(TestProducer)
  /\ WF_vars(TestConsumer)
  /\ SF_vars(TestPushSeesTail)
  /\ SF_vars(TestPopSeesHead)

\* ------------------------------------------------------------ Size()
\* -- Size(), called by the producer thread between its Pushes, by the
\* consumer thread between its Pops, or by another thread at any time:
\* size_t head = head_.load(acquire).  A thread reads its own cursor as it
\* stored it; the other cursor as Push and Pop read it; a thread that is
\* neither reads any value the polling thread may still read.
Callers == {"producer", "consumer", "other"}

SizeLoadHead(caller) ==
  /\ ~ub
  /\ sz_pc = "idle"
  /\ caller = "producer" => pc_p = "idle"
  /\ caller = "consumer" => pc_c = "idle"
  /\ sz_caller' = caller
  /\ sz_pc' = "tail"
  /\ \E j \in Visible(head_hist) :
       /\ caller = "producer" => j = Len(head_hist)
       /\ sz_head' = head_hist[j]
       /\ head_hist' = IF caller = "consumer"
                         THEN SubSeq(head_hist, j, Len(head_hist))
                         ELSE head_hist
  /\ UNCHANGED <<capacity_, buffer_, head_, tail_, tail_hist,
                 pc_p, p_null, p_count, p_data, p_head, p_tail, p_i, p_ret,
                 pc_c, c_null, c_count, c_dest, c_head, c_tail, c_i, c_ret,
                 init_arg, init_ret, inits_ok, pushed, popped, ub, sz_ret>>
  /\ UNCHANGED <<data_vars, life_vars>>

\* size_t tail = tail_.load(acquire); return head - tail;
SizeLoadTail ==
  /\ ~ub
  /\ sz_pc = "tail"
  /\ sz_pc' = "idle"
  /\ \E j \in Visible(tail_hist) :
       /\ sz_caller = "consumer" => j = Len(tail_hist)
       /\ sz_ret' = Sub(sz_head, tail_hist[j])
       /\ tail_hist' = IF sz_caller = "producer"
                         THEN SubSeq(tail_hist, j, Len(tail_hist))
                         ELSE tail_hist
  /\ UNCHANGED <<capacity_, buffer_, head_, tail_, head_hist,
                 pc_p, p_null, p_count, p_data, p_head, p_tail, p_i, p_ret,
                 pc_c, c_null, c_count, c_dest, c_head, c_tail, c_i, c_ret,
                 init_arg, init_ret, inits_ok, pushed, popped, ub,
                 sz_caller, sz_head>>
  /\ UNCHANGED <<data_vars, life_vars>>

SizeCall == \E caller \in Callers : SizeLoadHead(caller)

\* the threads of the queue's test, each of which may call Size() between
\* its calls, and a third thread that calls Size()
InSize(caller) == sz_pc = "tail" /\ sz_caller = caller

NextSize ==
  \/ (~InSize("producer") /\ TestPush)
  \/ PushCopy
  \/ PushStore
  \/ (~InSize("consumer") /\ TestPop)
  \/ PopCopy
  \/ PopStore
  \/ SizeCall
  \/ SizeLoadTail

SpecSize == TestInit /\ [][NextSize]_vars

\* ------------------------------------------------------------ the metrics' spec
\* The analysis of one window of kMetricsFftSize frames (kFftSize of
\* analysis_constants.h, reduced to the smallest window with a bin between
\* bin 0 and the Nyquist bin): the worker has popped the batch c_dest, the
\* only batch pushed so far, from a queue of one window.
kMetricsFftSize == 4

\* the scalars of a batch are 0 and plus or minus 1 / SampleScale: the bins
\* of such a window have magnitudes below, at and above the threshold
MetricsBatches == [1..(kMetricsFftSize * kChannels) -> {-1, 0, 1}]

MetricsInit ==
  /\ SnapshotInit(kMetricsFftSize)
  /\ c_dest \in MetricsBatches
  /\ sample_rate_ = StreamSampleRate
  /\ capacity_ = kMetricsFftSize * kChannels
  /\ buffer_ = c_dest
  /\ head_ = kMetricsFftSize * kChannels /\ tail_ = kMetricsFftSize * kChannels
  /\ head_hist = <<head_>> /\ tail_hist = <<tail_>>
  /\ pc_p = "idle" /\ p_null = FALSE /\ p_count = kMetricsFftSize * kChannels
  /\ p_data = c_dest
  /\ p_head = 0 /\ p_tail = 0 /\ p_i = 0 /\ p_ret = "true"
  /\ pc_c = "idle" /\ c_null = FALSE /\ c_count = kMetricsFftSize * kChannels
  /\ c_head = 0 /\ c_tail = 0 /\ c_i = 0 /\ c_ret = "true"
  /\ init_arg = capacity_ /\ init_ret = "true" /\ inits_ok = 1
  /\ pushed = c_dest /\ popped = c_dest /\ ub = FALSE
  /\ sz_caller = "none" /\ sz_pc = "idle" /\ sz_head = 0 /\ sz_ret = 0
  /\ size_bits = CursorBits + 1
  /\ wk_running = TRUE /\ wk_thread = "running" /\ wk_pc = "pop"
  /\ wk_init_ret = "true" /\ wk_stop_pc = "idle" /\ wk_stops = 0
  /\ ap_running = FALSE /\ ap_thread = "none" /\ ap_pc = "none"
  /\ ap_frames = 0 /\ ap_exit = "none" /\ ap_stop_pc = "idle" /\ ap_stops = 0
  /\ dec_reads = 0 /\ dec_stub = 0 /\ dec_len = 0
  /\ chunks_pushed = << >> /\ chunks_written = << >>
  /\ main_pc = "start"

MetricsAnalyze == AnalyzeBatch(kMetricsFftSize)

NextMetrics == MetricsAnalyze

SpecMetrics == MetricsInit /\ [][NextMetrics]_vars

\* ------------------------------------------------------------ the queue's claims
IsPrefix(s, t) == Len(s) <= Len(t) /\ SubSeq(t, 1, Len(s)) = s

\* n is 1, 2, 4, 8, ...
RECURSIVE IsPowerOfTwo(_)
IsPowerOfTwo(n) ==
  n = 1 \/ (n > 1 /\ n % 2 = 0 /\ IsPowerOfTwo(n \div 2))

\* the slots a Push or a Pop in its copy phase copies to or from
PushSlots == {SlotOf(capacity_, p_head, p_count, i) : i \in 0..(p_count - 1)}

PopSlots == {SlotOf(capacity_, c_tail, c_count, i) : i \in 0..(c_count - 1)}

\* the last successful Pop unwrapped a batch from the end of the backing store
PoppedAcrossEnd ==
  /\ c_ret = "true"
  /\ BitAnd(Sub(tail_, c_count), Sub(capacity_, 1)) + c_count > capacity_

\* C1: whatever the interleaving of the producer's Pushes and the consumer's
\* Pops, the values returned by successful Pops are, in order, a prefix of the
\* values accepted by successful Pushes: none is lost, repeated or reordered.
C1_PoppedIsPrefixOfPushed == IsPrefix(popped, pushed)

\* a batch was popped across the end of the store while a Push is copying
C1_Witness ==
  /\ PoppedAcrossEnd
  /\ c_count >= 2
  /\ pc_p = "copy"
  /\ Len(popped) > capacity_

\* C2: in an initialized queue the unsigned difference head_ - tail_ lies in
\* 0..capacity_ and is the number of values pushed and not yet popped: it is
\* 0 exactly when nothing is stored (Empty()) and capacity_ exactly when
\* capacity_ values are stored (Full()).
C2_CursorDistance ==
  capacity_ # 0 =>
    /\ Size \in 0..capacity_
    /\ Size = Len(pushed) - Len(popped)
    /\ Empty <=> (Len(pushed) = Len(popped))
    /\ Full <=> (Len(pushed) - Len(popped) = capacity_)

\* the largest queue is full after head_ has wrapped past the cursor width
C2_Witness ==
  /\ capacity_ = MaxCapacity
  /\ Full
  /\ head_ < tail_

\* a Push and a Pop that copy at the same time use disjoint slots
C3_NoSlotShared ==
  (pc_p = "copy" /\ pc_c = "copy") => (PushSlots \cap PopSlots = {})

\* the cursors move only after the whole batch is copied; a Pop copies out
\* only values of Pushes that have published them; a Push copies into no slot
\* that holds a value the consumer has not popped
C3_Step ==
  /\ head_' # head_ => (pc_p = "copy" /\ p_i = p_count)
  /\ tail_' # tail_ => (pc_c = "copy" /\ c_i = c_count)
  /\ PopCopy =>
       /\ Len(popped) + c_i < Len(pushed)
       /\ c_dest'[c_i + 1] = pushed[Len(popped) + c_i + 1]
  /\ PushCopy =>
       \A q \in Len(popped)..(Len(pushed) - 1) :
         SlotOf(capacity_, p_head, p_count, p_i) # q % capacity_

\* C3: a Push copying in and a Pop copying out at the same time never touch
\* the same slot: head_ is advanced only after all pushed elements are copied
\* in, so a Pop reads only fully written slots, and tail_ only after all
\* popped elements are copied out, so a Push overwrites no unread slot.
C3_CopyThenPublish == []C3_NoSlotShared /\ [][C3_Step]_vars

\* both contexts are in the middle of copying a batch
C3_Witness ==
  /\ pc_p = "copy" /\ pc_c = "copy"
  /\ p_i >= 1 /\ c_i >= 1
  /\ p_count >= 2 /\ c_count >= 2

\* what a Push, and a Pop, that returns false leaves unchanged
C4_Step ==
  /\ (Push /\ p_ret' = "false") =>
       /\ UNCHANGED <<head_, tail_, buffer_, capacity_>>
       /\ Size' = Size
  /\ (Pop /\ c_ret' = "false") =>
       /\ UNCHANGED <<head_, tail_, buffer_, capacity_>>
       /\ Size' = Size
       /\ c_dest' = IF c_null' THEN << >> ELSE Zeros(c_count')

\* C4: a Push or a Pop that returns false (null pointer, zero count, too
\* little free space or too few elements) leaves the cursors, the backing
\* store and so Size() as they were, and such a Pop writes nothing to the
\* destination.
C4_FailedCallChangesNothing == [][C4_Step]_vars

\* a Push failed for lack of space and a Pop for lack of data, on a queue
\* that is neither empty nor full
C4_Witness ==
  /\ p_ret = "false" /\ ~p_null /\ p_count > 0
  /\ c_ret = "false" /\ ~c_null /\ c_count > 0
  /\ Size > 0 /\ Size < capacity_

\* the result of a call of Initialize and what a failed call leaves unchanged
C5_Step ==
  InitializeAny =>
    /\ (init_ret' = "true") <=> IsPowerOfTwo(init_arg')
    /\ init_ret' \in {"true", "false"}
    /\ init_ret' = "false" =>
         UNCHANGED <<capacity_, buffer_, head_, tail_>>
    /\ init_arg' \in {0, 100} => init_ret' = "false"
    /\ init_arg' \in {1, kBufferSize} => init_ret' = "true"

\* C5: Initialize(capacity) returns true exactly when capacity is a power of
\* two (0 and 100 fail, 1 and 1024 succeed), and a call that returns false
\* changes nothing in the queue.
C5_InitializeIffPowerOfTwo == [][C5_Step]_vars

\* Initialize(100) failed on a queue initialized with capacity 1024
C5_Witness ==
  /\ inits_ok = 1
  /\ capacity_ = kBufferSize
  /\ init_arg = 100
  /\ init_ret = "false"

C6_Step_AsClaimed ==
  inits_ok' = inits_ok + 1 => (head_' = 0 /\ tail_' = 0 /\ Size' = 0)

\* C6 as claimed: after any successful Initialize, whatever the state of the
\* queue before it, both cursors are zero and Size() is 0.
C6_AsClaimed == [][C6_Step_AsClaimed]_vars

C6_Step ==
  inits_ok' = inits_ok + 1 =>
    /\ head_' = head_ /\ tail_' = tail_
    /\ inits_ok = 0 => (head_' = 0 /\ tail_' = 0 /\ Size' = 0 /\ Empty')

\* C6 amended: a successful Initialize leaves both cursors as they were; they
\* are zero, and the queue empty, after the first successful Initialize of a
\* queue, before which no Push or Pop can have succeeded.
C6_InitializeKeepsCursors == [][C6_Step]_vars

\* a queue that holds values was initialized again and still holds them
C6_Witness ==
  /\ inits_ok = 2
  /\ init_ret = "true"
  /\ head_ # 0
  /\ Size # 0

C7_Step ==
  /\ (Push /\ ~p_null' /\ p_count' > capacity_) => p_ret' = "false"
  /\ (Pop /\ ~c_null' /\ c_count' > capacity_) => c_ret' = "false"

\* C7: a Push or a Pop of more elements than capacity_ returns false in every
\* state, whether the queue is empty or full.
C7_MoreThanCapacityFails == [][C7_Step]_vars

\* on a full queue a Pop of more than capacity_ elements has failed, and so
\* has a Push of more than capacity_
C7_Witness ==
  /\ capacity_ # 0
  /\ Full
  /\ c_ret = "false" /\ ~c_null /\ c_count > capacity_
  /\ p_ret = "false" /\ ~p_null /\ p_count > capacity_

\* each context has a step of its own to take, whatever the other's state
C8_CanStep ==
  /\ ENABLED (Push \/ PushCopy \/ PushStore)
  /\ ENABLED (Pop \/ PopCopy \/ PopStore)
  /\ p_i <= p_count
  /\ c_i <= c_count

\* a step of the copy phase copies one more element or returns
C8_Step ==
  /\ (pc_p = "copy" /\ <<pc_p, p_i>>' # <<pc_p, p_i>>) =>
       \/ (pc_p' = "copy" /\ p_i' = p_i + 1)
       \/ (pc_p' = "idle" /\ p_i = p_count /\ p_ret' = "true")
  /\ (pc_c = "copy" /\ <<pc_c, c_i>>' # <<pc_c, c_i>>) =>
       \/ (pc_c' = "copy" /\ c_i' = c_i + 1)
       \/ (pc_c' = "idle" /\ c_i = c_count /\ c_ret' = "true")
  /\ (pc_p = "idle" /\ pc_p' = "copy") => p_i' = 0
  /\ (pc_c = "idle" /\ pc_c' = "copy") => c_i' = 0

\* C8: a call of Push or Pop never waits for the other context: in every
\* state the caller has a step it can take on its own, and each step of the
\* copy phase copies one more element or returns, so a call of count
\* elements returns after at most count + 2 steps of its caller.
C8_NeverWaits == []C8_CanStep /\ [][C8_Step]_vars

\* a Push is about to publish a full-size batch while a Pop has just begun
C8_Witness ==
  /\ pc_p = "copy" /\ p_i = p_count /\ p_count = MaxCount
  /\ pc_c = "copy" /\ c_i = 0

\* ------------------------------------------------------------ the snapshot's claims
\* the five outputs of Get are those that Set number k passed (k = 0: the
\* initial members)
GetReturned(k) ==
  /\ g_rms = k
  /\ g_correlation = k
  /\ g_bandwidth = k
  /\ g_spectrum_left = Filled(k)
  /\ g_spectrum_right = Filled(k)

\* C9: whatever the interleaving of the worker's Sets and the reader's Gets,
\* the five outputs of a Get that has returned all come from one Set call, or
\* all from the initial members.
C9_GetIsOneSet ==
  pc_r = "idle" => \E k \in 0..sets_called : GetReturned(k)

\* a Get returned the second Set's bundle and the third Set is half written
C9_Witness ==
  /\ pc_r = "idle"
  /\ gets_called >= 1
  /\ GetReturned(2)
  /\ pc_w = "bandwidth"
  /\ w_arg = 3

C10_Returned ==
  (pc_r = "idle" /\ gets_called >= 1) =>
    /\ GetReturned(g_locked_at)
    /\ g_prev <= g_rms

C10_Step ==
  pc_r' # pc_r =>
    UNCHANGED <<rms_, correlation_, bandwidth_, spectrum_left_,
                spectrum_right_>>

\* C10: a Get returns what the last Set that returned before the Get locked
\* the mutex passed (the initial zeros if none had), which is never older than
\* what the Get before it returned; and no step of Get changes a member.
C10_GetIsLastCompletedSet == []C10_Returned /\ [][C10_Step]_vars

\* a Get returned the first Set's bundle and the next Get the third's
C10_Witness ==
  /\ pc_r = "idle"
  /\ g_prev = 1
  /\ g_locked_at = 3
  /\ GetReturned(3)

\* ------------------------------------------------------------ the threads' claims
\* the execution context of the worker or of the coordinator has exited:
\* its Run has returned and none of its steps can be taken
WorkerExited ==
  /\ wk_thread \in {"none", "joined"} /\ wk_pc \in {"none", "done"}
  /\ pc_c = "idle"
  /\ ~ENABLED WorkerNext

CoordinatorExited ==
  /\ ap_thread \in {"none", "joined"} /\ ap_pc \in {"none", "done"}
  /\ pc_p = "idle"
  /\ ~ENABLED CoordinatorNext

\* C11: once Stop() of the worker (of the coordinator) has returned, its thread
\* has exited: no step of its Run can be taken any more, so the worker makes
\* no further Pop, analysis or Set and the coordinator no further Read, Push
\* or WriteStream.
C11_NothingAfterStop ==
  /\ wk_stops > 0 => WorkerExited
  /\ ap_stops > 0 => CoordinatorExited

\* both Stops have returned after the worker published a snapshot and the
\* coordinator wrote a chunk, the coordinator having been stopped in its loop
C11_Witness ==
  /\ wk_stops > 0 /\ wk_thread = "joined" /\ sets_done > 0
  /\ ap_stops > 0 /\ ap_thread = "joined" /\ Len(chunks_written) > 0
  /\ ap_exit = "stop"
  /\ ~Empty

\* C12: a Stop() of the worker that was called returns, if the worker's
\* thread keeps being scheduled: Run tests running_ before every Pop, so after
\* a failed Pop and after every published batch, whether the queue is empty,
\* holds less than a batch or is being filled.
C12_StopReturns == (wk_stop_pc = "join") ~> (wk_stop_pc = "idle")

\* Stop() has returned and joined the thread, which had published a batch,
\* while the queue holds less than a batch and the producer is in a Push
C12_Witness ==
  /\ wk_stops > 0 /\ wk_thread = "joined"
  /\ sets_done > 0
  /\ Size = 1
  /\ pc_p = "copy"

\* C13: Stop() is idempotent, for the worker and for the coordinator: once a
\* Stop() has returned, running_ is false and there is no thread (never
\* launched, or joined), in every state from then on; a further Stop(), the
\* destructor's included, finds the thread not joinable, so that its return
\* is enabled at once.
C13_StopIdempotent ==
  /\ wk_stops > 0 =>
       /\ ~wk_running /\ wk_thread \in {"none", "joined"}
       /\ wk_stop_pc = "join" => ENABLED WorkerStop
  /\ ap_stops > 0 =>
       /\ ~ap_running /\ ap_thread \in {"none", "joined"}
       /\ ap_stop_pc = "join" => ENABLED PipelineStop

\* Stop() of the coordinator and Stop() of the worker have each returned
\* twice, both threads having been launched
C13_Witness ==
  /\ wk_stops >= 2 /\ wk_thread = "joined"
  /\ ap_stops >= 2 /\ ap_thread = "joined"

\* C14: an Initialize() of the worker that fails (buffer_.Initialize or
\* fft_.Initialize returned false) returns before Start(): it launches no
\* thread, so no Run ever pops or publishes; a thread exists only after an
\* Initialize() in which both steps succeeded.
C14_FailedInitializeLaunchesNothing ==
  /\ wk_init_ret = "false" =>
       /\ wk_thread = "none" /\ wk_pc = "none"
       /\ popped = <<>> /\ sets_called = 0
       /\ ~ENABLED WorkerNext
  /\ wk_thread # "none" => wk_init_ret = "true" /\ init_ret = "true"

\* fft_.Initialize() failed after the queue was constructed, and the worker
\* has been destroyed since
C14_Witness ==
  /\ wk_init_ret = "false" /\ init_ret = "true" /\ capacity_ = kRingBufferCapacity
  /\ wk_stops > 0

\* C15: the coordinator's running_ is false before Start(), true while Run is
\* in its loop as long as no Stop() was called, and false once Run has
\* returned, whatever ended the loop (end of stream, decode error, failed
\* Push, failed WriteStream, Stop()) and once Stop() has been called; the
\* flag being false in every state after the loop, it never becomes true
\* again.
C15_RunningFlag ==
  /\ ap_thread = "none" => ~ap_running
  /\ ap_thread = "running" =>
       (ap_running <=> ap_stop_pc = "idle" /\ ap_stops = 0)
  /\ ap_thread \in {"finished", "joined"} =>
       /\ ~ap_running
       /\ ap_exit \in {"eos", "error", "push", "write", "stop"}
       /\ ~ENABLED PipelineStart

\* Run has returned after a failed WriteStream that followed a written chunk,
\* and the flag is false
C15_Witness ==
  /\ ap_thread = "finished" /\ ap_exit = "write" /\ ~ap_running
  /\ Len(chunks_written) > 0 /\ ap_stops = 0

C16_Failed == ap_exit \in {"push", "write"}

\* C16: after the first failed Push or the first failed WriteStream Run
\* breaks out of its loop: the coordinator makes no further Read, Push or
\* WriteStream, and a second failure never happens.
C16_LoopLeft ==
  C16_Failed =>
    /\ ap_pc \in {"clear", "done"}
    /\ pc_p = "idle"

C16_Step ==
  /\ p_ret = "false" /\ p_ret' # "false" => ap_exit' = "push"
  /\ C16_Failed =>
       /\ UNCHANGED <<dec_reads, chunks_pushed, chunks_written, pushed, ap_exit>>
       /\ ~PipelineTest /\ ~PipelinePush /\ ~PipelineWriteStream

C16_NoRetry == []C16_LoopLeft /\ [][C16_Step]_vars

\* Run has returned after a Push of whole frames that failed on a queue
\* holding values, the chunks before it having been pushed and written
C16_Witness ==
  /\ ap_exit = "push" /\ ap_thread = "finished" /\ ap_frames > 0
  /\ Len(chunks_pushed) > 0 /\ dec_reads = Len(chunks_pushed) + 1
  /\ chunks_written = chunks_pushed

\* C17: Run pushes a chunk before it writes it, and writes it only if the Push
\* succeeded: the chunks written are a prefix of the chunks pushed, at most
\* one chunk shorter, and the chunk about to be written is the one pushed
\* last.
C17_PushBeforeWrite ==
  /\ IsPrefix(chunks_written, chunks_pushed)
  /\ Len(chunks_pushed) - Len(chunks_written) <= 1
  /\ ap_pc = "write" =>
       /\ Len(chunks_pushed) = Len(chunks_written) + 1
       /\ chunks_pushed[Len(chunks_pushed)] = dec_reads

\* a chunk is pushed and not yet written, after an earlier chunk was written
\* and while a later Read is still possible
C17_Witness ==
  /\ ap_pc = "write"
  /\ Len(chunks_written) > 0
  /\ Len(chunks_pushed) = Len(chunks_written) + 1

\* C18, as claimed: a Push of the coordinator returns false only when the
\* chunk is larger than the free space of the queue (taken with the oldest
\* tail the Push may still observe, the least free space it can compute), so
\* that a Read that succeeded stops the coordinator for no other reason.
C18_PushFailsOnlyWhenFull ==
  [][ap_pc = "push" /\ p_ret = "none" /\ p_ret' = "false" =>
       p_count' > FreeSpace(capacity_, head_, tail_hist[1])]_vars

\* a Read succeeded with less than one whole frame, the Push of its zero
\* values failed on an empty queue, and Run has returned because of it
C18_Witness ==
  /\ ap_exit = "push" /\ ap_thread = "finished" /\ ~ap_running
  /\ ap_frames = 0 /\ p_count = 0
  /\ Empty /\ dec_reads < dec_len

\* the render loop has been left and the worker's thread has been joined
C19_DownstreamStopped ==
  /\ main_pc \in {"destroy_pipeline", "destroy_worker", "exit"}
  /\ wk_thread = "joined" /\ wk_pc = "done"

\* C19: a decode error or a failed WriteStream makes Run leave its loop and
\* clear running_; once the coordinator's flag is false again the render loop,
\* which tests it before every frame, returns, and the worker, destroyed
\* after the render loop has returned, stops too.
C19_StopPropagates ==
  /\ [](ap_exit \in {"error", "write"} => ap_pc \in {"clear", "done"})
  /\ (ap_exit \in {"error", "write"} \/ (ap_thread # "none" /\ ~ap_running))
       ~> (ap_thread # "running" /\ ~ap_running /\ C19_DownstreamStopped)

\* everything has stopped after a failed WriteStream, the window never having
\* been closed: the render loop was left on the flag
C19_Witness ==
  /\ ap_exit = "write" /\ ap_thread = "joined"
  /\ C19_DownstreamStopped /\ main_pc = "exit"
  /\ sets_done > 0

\* no Push has failed and Run has not left its loop early; the stub's chunks
\* are pushed and written in order; no more snapshots than chunks
C20_Safe ==
  /\ p_ret # "false"
  /\ ap_exit \in {"none", "eos"}
  /\ ap_thread = "running" /\ ap_pc # "done" => ap_running
  /\ IsPrefix(chunks_pushed, [i \in 1..ScenarioChunks |-> i])
  /\ sets_done <= ScenarioChunks
  /\ ap_thread = "finished" =>
       /\ ~ap_running /\ ap_exit = "eos"
       /\ dec_reads = ScenarioChunks + 1
       /\ chunks_pushed = [i \in 1..ScenarioChunks |-> i]
       /\ chunks_written = chunks_pushed
       /\ Len(pushed) = ScenarioChunks * kFftSize * kChannels

\* the coordinator has stopped, the worker has published one snapshot for
\* each chunk and the queue is empty
C20_Drained ==
  /\ ap_thread = "finished" /\ ~ap_running
  /\ sets_done = ScenarioChunks
  /\ popped = pushed
  /\ Empty

\* C20: with a decoder stub of 4 chunks of kFftSize stereo frames and then the
\* end of the stream, and a device that never fails, every Push succeeds
\* whatever the worker does meanwhile (the queue holds 4 chunks), the
\* coordinator's flag is true until the Read after the 4th chunk reports the
\* end of the stream and false from then on, and, both threads being
\* scheduled, the worker ends up having published exactly 4 snapshots and
\* popped every value.
C20_Scenario == []C20_Safe /\ <>[]C20_Drained

\* the 4th chunk is pushed onto the three before it, the worker not having
\* popped a value yet
C20_Witness ==
  /\ Full /\ Len(chunks_pushed) = ScenarioChunks - 1 /\ ap_pc = "push"
  /\ pc_p = "idle" /\ p_ret = "true"
  /\ popped = << >> /\ wk_thread = "running"


\* ------------------------------------------------------------ the metrics' claims
\* the worker has analysed the popped batch and published the snapshot
Analysed == sets_done = 1 /\ wk_pc = "test"

\* the batch analysed is silence
Silence == \A i \in 1..Len(c_dest) : c_dest[i] = 0

\* (root + root) / kChannels is zero exactly when every root is
RmsIsZero(rms) ==
  \A i \in 1..Len(rms.sum) : rms.sum[i].sqrt_of = FromInt(0)

SpectrumIsZero(spectrum) ==
  \A i \in 1..Len(spectrum) : spectrum[i].sqrt_of = FromInt(0)

LeftScalar(i) == c_dest[2 * i - 1]

RightScalar(i) == c_dest[2 * i]

\* sum over the first n frames of the batch of left[i] * right[i], in units
\* of 1 / SampleScale^2
RECURSIVE SumOfProducts(_)
SumOfProducts(n) ==
  IF n = 0 THEN 0 ELSE SumOfProducts(n - 1) + LeftScalar(n) * RightScalar(n)

RECURSIVE SumOfLeftSquares(_)
SumOfLeftSquares(n) ==
  IF n = 0 THEN 0 ELSE SumOfLeftSquares(n - 1) + LeftScalar(n) * LeftScalar(n)

OutOfPhase == \A i \in 1..kMetricsFftSize : LeftScalar(i) = -RightScalar(i)

InPhase == \A i \in 1..kMetricsFftSize : LeftScalar(i) = RightScalar(i)

\* the mean-square level of the left channel
MeanSquareLeft ==
  Float(SumOfLeftSquares(kMetricsFftSize),
        kMetricsFftSize * SampleScale * SampleScale)

\* C22: the published correlation is (1/N) times the sum over the window of
\* left[i] * right[i]; for a window that is not silence, left = -right gives
\* a negative value and left = right a positive one, equal to the mean-square
\* level of the window (the square of either channel's RMS).
C22_Correlation ==
  Analysed =>
    /\ correlation_ = Float(SumOfProducts(kMetricsFftSize),
                            kMetricsFftSize * SampleScale * SampleScale)
    /\ (OutOfPhase /\ ~Silence) => FloatLess(correlation_, FromInt(0))
    /\ (InPhase /\ ~Silence) =>
         /\ FloatLess(FromInt(0), correlation_)
         /\ correlation_ = MeanSquareLeft
         /\ correlation_ = rms_.sum[1].sqrt_of
         /\ correlation_ = rms_.sum[2].sqrt_of

\* an out-of-phase window of small samples has been analysed
C22_Witness ==
  /\ Analysed /\ OutOfPhase
  /\ \A i \in 1..kMetricsFftSize : LeftScalar(i) = 1
  /\ FloatLess(correlation_, FromInt(0))


\* the transform outputs of the two channels of the batch analysed
OutputLeft == Execute(InputLeft(c_dest, kMetricsFftSize), kMetricsFftSize)

OutputRight == Execute(InputRight(c_dest, kMetricsFftSize), kMetricsFftSize)

\* the magnitude of a bin is above 0.1: re^2 + im^2 > 1 / 100
AboveThreshold(bin) ==
  LET square == FloatAdd(FloatMul(bin[1], bin[1]), FloatMul(bin[2], bin[2]))
  IN  square[1] * 100 > square[2]

\* the bins 0 .. last of an output whose magnitude is above the threshold
BinsAbove(output, last) == {b \in 0..last : AboveThreshold(output[b + 1])}

Lowest(S) == CHOOSE b \in S : \A c \in S : b <= c

Highest(S) == CHOOSE b \in S : \A c \in S : c <= b

\* (hi - lo) * sample_rate / N over the bins S, and 0 when there is none
BandwidthOf(S) ==
  IF S = {} THEN FromInt(0)
  ELSE Float((Highest(S) - Lowest(S)) * sample_rate_, kMetricsFftSize)

\* the mean of the two channels' values when the scan ends with bin last
MeanBandwidth(last) ==
  FloatDiv(FloatAdd(BandwidthOf(BinsAbove(OutputLeft, last)),
                    BandwidthOf(BinsAbove(OutputRight, last))),
           FromInt(2))

\* C26 as claimed: the scan covers the bins 0 through N/2
C26_AsClaimed ==
  Analysed => bandwidth_ = MeanBandwidth(kMetricsFftSize \div 2)

\* C26: per channel the scan covers the bins 0 through N/2 - 1 of the
\* transform output (the bin N/2 is not looked at) and, when at least one of
\* them has a magnitude above 0.1, yields (hi - lo) * sample_rate / N for the
\* lowest and highest such bins, so 0 for a single one (and 0 when there is
\* none); the published bandwidth is the mean of the two channels' values.
C26_Bandwidth ==
  Analysed => bandwidth_ = MeanBandwidth(kMetricsFftSize \div 2 - 1)

\* the left channel has bins 0 and 1 above the threshold, and its bin N/2
\* too; the right channel has bin 0 alone
C26_Witness ==
  /\ Analysed
  /\ BinsAbove(OutputLeft, kMetricsFftSize \div 2) = {0, 1, 2}
  /\ BinsAbove(OutputRight, kMetricsFftSize \div 2) = {0}
  /\ bandwidth_ = Float(sample_rate_, 2 * kMetricsFftSize)


\* ------------------------------------------------------------ the worker's batches
\* the batch number k (k = 0, 1, ...) of the stream of the scalars pushed
BatchOfStream(k) ==
  SubSeq(pushed, 2 * kFftSize * k + 1, 2 * kFftSize * (k + 1))

\* the two channels of batch k: the scalars at the even offsets 2 i and at
\* the odd offsets 2 i + 1 of the batch (i = 0 .. N - 1)
LeftOfStream(k) ==
  [i \in 1..kFftSize |-> Float(pushed[2 * kFftSize * k + 2 * (i - 1) + 1],
                               SampleScale)]

RightOfStream(k) ==
  [i \in 1..kFftSize |-> Float(pushed[2 * kFftSize * k + 2 * (i - 1) + 2],
                               SampleScale)]

\* the snapshot is the one computed from batch k of the stream
SnapshotOfBatch(k) ==
  /\ rms_ = CalculateRms(LeftOfStream(k), RightOfStream(k), kFftSize)
  /\ correlation_ =
       CalculateStereoCorrelation(LeftOfStream(k), RightOfStream(k), kFftSize)
  /\ bandwidth_ =
       CalculateAverageBandwidth(Execute(LeftOfStream(k), kFftSize),
                                 Execute(RightOfStream(k), kFftSize),
                                 kFftSize, sample_rate_)
  /\ spectrum_left_ =
       CalculateMagnitudes(Execute(LeftOfStream(k), kFftSize), kFftSize)
  /\ spectrum_right_ =
       CalculateMagnitudes(Execute(RightOfStream(k), kFftSize), kFftSize)

\* C23: every batch the worker analyses is a whole batch of 2N scalars, and
\* snapshot number k is computed from the scalars [2N k, 2N (k + 1)) of the
\* stream of the scalars pushed, even offsets as left and odd ones as right,
\* whatever the sizes of the chunks pushed: the batches popped are
\* consecutive, do not overlap and are never partial.
C23_BatchesAreConsecutive ==
  /\ IsPrefix(popped, pushed)
  /\ Len(popped) % (2 * kFftSize) = 0
  /\ 2 * kFftSize * sets_done <= Len(popped)
  /\ Len(popped) <= 2 * kFftSize * (sets_done + 1)
  /\ (wk_pc = "pop" /\ pc_c = "idle" /\ c_ret = "true") =>
       /\ Len(popped) = 2 * kFftSize * (sets_done + 1)
       /\ c_dest = BatchOfStream(sets_done)
  /\ sets_done >= 1 => SnapshotOfBatch(sets_done - 1)

\* the second snapshot has been published, and the scalars came one by one
C23_Witness ==
  /\ sets_done = 2
  /\ p_count = 1
  /\ Len(pushed) = 2 * (2 * kFftSize)
  /\ SnapshotOfBatch(1)


\* the members of the snapshot
snapshot == <<rms_, correlation_, bandwidth_, spectrum_left_, spectrum_right_>>

\* the worker's last Pop returned true and its batch is not analysed yet
PopSucceeded == wk_pc = "pop" /\ pc_c = "idle" /\ c_ret = "true"

\* the worker's last Pop returned false
PopFailed == wk_pc = "pop" /\ pc_c = "idle" /\ c_ret = "false"

\* the snapshot computed from the batch in interleaved_
SnapshotOfPopped ==
  LET left == InputLeft(c_dest, kFftSize)
      right == InputRight(c_dest, kFftSize)
  IN  <<CalculateRms(left, right, kFftSize),
        CalculateStereoCorrelation(left, right, kFftSize),
        CalculateAverageBandwidth(Execute(left, kFftSize),
                                  Execute(right, kFftSize),
                                  kFftSize, sample_rate_),
        CalculateMagnitudes(Execute(left, kFftSize), kFftSize),
        CalculateMagnitudes(Execute(right, kFftSize), kFftSize)>>

C24_Step ==
  \* a Set follows a successful Pop, uses it up, and passes the transform's
  \* and the four metrics' results for the batch popped
  /\ (sets_called' # sets_called \/ snapshot' # snapshot) =>
       /\ PopSucceeded
       /\ sets_called' = sets_called + 1
       /\ sets_done' = sets_called'
       /\ snapshot' = SnapshotOfPopped
       /\ c_ret' = "none" /\ wk_pc' = "test"
  \* a successful Pop is followed by nothing but its Set
  /\ (PopSucceeded /\ (c_ret' # c_ret \/ wk_pc' # wk_pc)) =>
       sets_called' = sets_called + 1
  \* a Pop that fails claims nothing and changes neither queue nor snapshot
  /\ (wk_pc = "pop" /\ c_ret = "none" /\ c_ret' = "false") =>
       /\ UNCHANGED <<capacity_, buffer_, head_, tail_, pushed, popped>>
       /\ UNCHANGED <<snapshot, sets_called, sets_done>>
       /\ wk_pc' = "pop"
  \* and is followed by the loop's test only
  /\ (PopFailed /\ (c_ret' # c_ret \/ wk_pc' # wk_pc)) =>
       /\ c_ret' = "none"
       /\ wk_pc' = IF wk_running THEN "pop" ELSE "done"
       /\ UNCHANGED <<capacity_, buffer_, head_, tail_, pushed, popped>>
       /\ UNCHANGED <<snapshot, sets_called, sets_done>>

\* C24: the worker calls Set exactly once per successful Pop, after the
\* transform and the four metrics of that batch, and never after a failed
\* Pop: a failed Pop claims no data, leaves the queue and the snapshot as
\* they are, and is followed by the next test of the loop only.
C24_SetOncePerPop == [][C24_Step]_vars

\* a Pop has failed on a remainder of one scalar after a batch was analysed
C24_Witness ==
  /\ PopFailed
  /\ sets_done = 1
  /\ Len(pushed) = 2 * kFftSize + 1
  /\ Len(popped) = 2 * kFftSize


\* the worker is not running (never started, or told to stop), or it has
\* analysed every batch it popped and fewer than 2N scalars are stored
C25_StoppedOrDrained ==
  \/ wk_init_ret # "true"
  \/ ~wk_running
  \/ /\ Size < 2 * kFftSize
     /\ pc_c = "idle" /\ ~PopSucceeded
     /\ Len(popped) = 2 * kFftSize * sets_done

\* C25: while the worker is running and scheduled, every full batch in the
\* queue is eventually popped and analysed: once the producer pushes no
\* more, the queue eventually holds fewer than 2N scalars and stays that way.
C25_Drains == <>[]C25_StoppedOrDrained

\* the worker runs, has analysed two batches and has found the queue empty
C25_Witness ==
  /\ wk_running /\ wk_thread = "running" /\ main_pc = "start"
  /\ PopFailed
  /\ sets_done = 2
  /\ Len(pushed) = 2 * (2 * kFftSize)
  /\ Size = 0


\* ------------------------------------------------------------ the test's claim
\* the values of the test in the order pushed
TestValues == [i \in 1..kNumberOfIntegers |-> i]

\* both loops of the test have ended and the values popped are those pushed
TestDone ==
  /\ pc_p = "idle" /\ pc_c = "idle"
  /\ pushed = TestValues
  /\ popped = TestValues
  /\ ~ENABLED TestPush /\ ~ENABLED TestPop

\* C27: when one thread pushes K values one at a time and another pops K
\* values one at a time, each repeating a call that failed, both loops end
\* and the values popped are the values pushed in their order, also for K
\* above the capacity: no deadlock and no lost update of a cursor.
C27_TestTerminates == []IsPrefix(popped, TestValues) /\ <>[]TestDone

\* a queue of one slot has passed all the values, the third after a Push
\* that found the queue full
C27_Witness ==
  /\ capacity_ = 1 /\ capacity_ < kNumberOfIntegers
  /\ popped = TestValues
  /\ head_ = kNumberOfIntegers /\ tail_ = kNumberOfIntegers


\* ------------------------------------------------------------ Size()'s claim
\* C28 as claimed: Size() returns a value in [0, capacity] for every caller
\* and every interleaving, also to a third thread while a Push and a Pop
\* complete between its two loads; so Empty() and Full() never compare an
\* out-of-range size.
C28_SizeInRange == sz_ret \in 0..capacity_

\* what holds: the value returned to the producer or to the consumer is in
\* [0, capacity]
C28_SizeInRangeForOwners ==
  (sz_pc = "idle" /\ sz_caller \in {"producer", "consumer"}) =>
    sz_ret \in 0..capacity_

\* a third thread got a size above the capacity
C28_Witness ==
  /\ sz_caller = "other" /\ sz_pc = "idle"
  /\ sz_ret > capacity_


\* ------------------------------------------------------------ the cursors' width
\* the number of values stored: those pushed and not yet popped
Stored == Len(pushed) - Len(popped)

\* C29: with cursors of w bits that wrap modulo 2^w and a capacity that is a
\* power of two below 2^w, the order of the values and
\* 0 <= (head_ - tail_) mod 2^w <= capacity_ are kept by every Push and Pop,
\* also by those in which a cursor passes 2^w - 1: the cursors are the
\* counts of the values pushed and popped modulo 2^w, and their difference
\* is the number of values stored.
C29_WrapKeepsOrderAndSize ==
  ~ub =>
    /\ capacity_ < Modulus
    /\ head_ = Len(pushed) % Modulus
    /\ tail_ = Len(popped) % Modulus
    /\ Sub(head_, tail_) = Stored
    /\ 0 <= Sub(head_, tail_) /\ Sub(head_, tail_) <= capacity_
    /\ IsPrefix(popped, pushed)

\* head_ has passed 2^w - 1 and tail_ has not, values are stored, and a
\* value pushed after the overflow has not been popped yet
C29_Witness ==
  /\ Len(pushed) > Modulus
  /\ Len(popped) < Modulus
  /\ head_ < tail_
  /\ Stored = capacity_
  /\ pc_p = "idle" /\ pc_c = "idle"


\* ------------------------------------------------------------ playback's claim
\* Run has returned after the end of the stream, every chunk written
PlayedToTheEnd ==
  /\ ap_pc = "done"
  /\ ap_exit = "eos"
  /\ chunks_written = [i \in 1..PlaybackChunks |-> i]

\* C30 as claimed: if the decoder and the device never fail, every chunk has
\* at least one frame and at most capacity scalars, and nobody asks for a
\* stop, then with the coordinator and the worker scheduled the coordinator
\* reads to the end of the stream and writes every chunk.
C30_PlaysToTheEnd == <>PlayedToTheEnd

\* Run has returned because the fifth Push found the queue full, with four
\* chunks written and none analysed
C30_Witness ==
  /\ ap_pc = "done"
  /\ ap_exit = "push"
  /\ dec_reads = PlaybackChunks
  /\ Len(chunks_written) = PlaybackChunks - 1
  /\ Size = capacity_
  /\ sets_done = 0

====
